---- MODULE Spec2Model ----
(***************************************************************************)
(* Verification model of cli-engine: the self-update core, the `update`    *)
(* command, the user plugin installer, the plugin manager and the help     *)
(* test of CLI.run.  The specifications share the module's variables; each *)
(* one moves its own group of variables and leaves the others at rest:     *)
(*   Spec         concurrent `update` and command invocations, the locks   *)
(*                and the client tree (Updater.update, CLI.run)            *)
(*   SpecAuto     concurrent autoupdate() calls, the autoupdate marker     *)
(*   SpecExtract  the event machine of one Updater.extract promise         *)
(*   SpecDebounce `update --autoupdate` and its debounce loop              *)
(*   SpecCmd      Update.run: manifest test, shouldUpdate, update, tidy    *)
(*   SpecPlugins  UserPlugins.install / remove, the plugins lock, and the  *)
(*                catalog after install, link and uninstall                *)
(*   SpecInstall  UserPlugins.install by two processes at the same time    *)
(*   SpecManager  PluginManager.init, findCommand and unalias              *)
(*   SpecInit     PluginManager.init: overlapping calls, failing provider  *)
(*   SpecCLI      CLI.run: the help test and the paths it selects          *)
(*   SpecGo       the legacy Go updater: manifest fetch, lock, download    *)
(*   SpecFetch    Updater.fetchManifest, fetchVersion, the version cache   *)
(* Time is counted in seconds.                                             *)
(***************************************************************************)
EXTENDS Integers, Sequences, FiniteSets, TLC

VARIABLES
  \* ---- Spec: processes, locks, client tree
  pc, role, writer, readers, rootExists, trees, baseDirs, clientBin,
  configBin, windows, manifestVersion, prevVersion, runs,
  \* ---- SpecAuto: autoupdate()
  apc, now, aufile, force, mock, needed, chk, spawned, spawnTried,
  startT, binResolved,
  \* ---- SpecExtract: one extract() promise
  xArchive, xSha, xPos, hasher, xStream, xPipe, shaValidated, extracted,
  xResult, xErr, xFails, xRootExists, xRoot,
  \* ---- SpecDebounce: Update.run with --autoupdate
  dpc, dnow, lastrun, dAuto, dSleeps, dEarly, dTouches, dTicks,
  \* ---- SpecCmd: the `update` command, one process after another
  cpc, cnow, cVersion, cChannel, cDisabled, cAutoupdate, cArg, cManifest,
  cChance, cDecision, cRootExists, files, cLink, cDownloads, cCmds, cTicks,
  \* ---- SpecPlugins: UserPlugins.install / remove
  ipc, iOp, iName, iTag, pluginsLock, iAcquired, iUnlocks, dependencies,
  iBefore, iErr, iOps,
  \* ---- SpecManager: PluginManager
  mpc, provided, aliases, initialized, commandIDs, topics, found, mInits,
  \* ---- SpecCLI: CLI.run, the help test
  hpc, argv, helpPath, helpRan, resolved, executed,
  defaultCommand, lookedUp, cmdFound, topicFound, topicHelp, notFound,
  threw, exitCode,
  \* ---- SpecGo: the legacy Go updater
  gpc, goLock, updateManifestRetrying, gAttempts, gRetries, gFetches, gErr,
  gRuns,
  \* ---- SpecPlugins: the plugin catalog
  linkedPlugins, pluginCache, listing, listedOps,
  \* ---- SpecFetch: fetchManifest, fetchVersion
  fpc, fOp, fDownload, versionFile, fileAtCall, remoteVersion, fRequests,
  fResult, fErr, fWriteFailed, fCalls,
  \* ---- SpecInit: overlapping and failing init()
  npc, nProvided, nDeclared, nBroken, nInitialized, nCommandIDs, nTopics,
  nCalls,
  \* ---- SpecInstall: two concurrent installs
  jpc, jLock, jDeps, jRead, jName, jInstalls

uvars == <<pc, role, writer, readers, rootExists, trees, baseDirs, clientBin,
           configBin, windows, manifestVersion, prevVersion, runs>>
avars == <<apc, now, aufile, force, mock, needed, chk, spawned, spawnTried,
           startT, binResolved>>
xvars == <<xArchive, xSha, xPos, hasher, xStream, xPipe, shaValidated,
           extracted, xResult, xErr, xFails, xRootExists, xRoot>>
dvars == <<dpc, dnow, lastrun, dAuto, dSleeps, dEarly, dTouches, dTicks>>
cvars == <<cpc, cnow, cVersion, cChannel, cDisabled, cAutoupdate, cArg,
           cManifest, cChance, cDecision, cRootExists, files, cLink,
           cDownloads, cCmds, cTicks>>
ivars == <<ipc, iOp, iName, iTag, pluginsLock, iAcquired, iUnlocks,
           dependencies, iBefore, iErr, iOps>>
mvars == <<mpc, provided, aliases, initialized, commandIDs, topics, found,
           mInits>>
hvars == <<hpc, argv, helpPath, helpRan, resolved, executed, defaultCommand,
          lookedUp, cmdFound, topicFound, topicHelp, notFound, threw,
          exitCode>>
gvars == <<gpc, goLock, updateManifestRetrying, gAttempts, gRetries, gFetches,
           gErr, gRuns>>
kvars == <<linkedPlugins, pluginCache, listing, listedOps>>
fvars == <<fpc, fOp, fDownload, versionFile, fileAtCall, remoteVersion,
           fRequests, fResult, fErr, fWriteFailed, fCalls>>
nvars == <<npc, nProvided, nDeclared, nBroken, nInitialized, nCommandIDs,
           nTopics, nCalls>>
jvars == <<jpc, jLock, jDeps, jRead, jName, jInstalls>>
vars == <<uvars, avars, xvars, dvars, cvars, ivars, mvars, hvars, gvars, kvars, fvars, nvars, jvars>>

None == "none"
Absent == 0 - 1

(***************************************************************************)
(* Bounds of the model.                                                    *)
(***************************************************************************)
MaxLen == 2        \* longest archive streamed to extract, in chunks
MaxRuns == 2       \* invocations started per process in Spec
MaxTicks == 2      \* seconds the clock may advance on its own
MaxTouches == 1    \* times another invocation touches the debounce marker
MaxCmds == 2       \* `update` commands run one after another in SpecCmd
MaxHours == 2      \* hours the clock may advance in SpecCmd
MaxOps == 2        \* install / remove operations run in SpecPlugins
MaxInits == 2      \* calls of PluginManager.init in SpecManager
MaxArgs == 3       \* arguments after the binary's name in SpecCLI

(***************************************************************************)
(* Program constants, in seconds.                                          *)
(***************************************************************************)
FiveHours == 18000   \* moment().subtract(5, 'hours')
Hour == 3600         \* m.add(1, 'hour')
Minute == 60         \* wait(60 * 1000)

Procs == {"p1", "p2"}

(***************************************************************************)
(* SpecExtract: Updater.extract(stream, dir, sha)                          *)
(***************************************************************************)
Chunks == 0..1
Archives == UNION {[1..n -> Chunks] : n \in 0..MaxLen}

\* crypto.createHash('sha256'): the running state of the hasher.  The digest
\* is abstracted to a small rolling hash; only equality of digests is used.
HashUpdate(h, d) == (h * 31 + d + 1) % 257
HashNew == HashUpdate(0, 0)

RECURSIVE HashAll(_, _)
HashAll(h, s) == IF s = <<>> THEN h ELSE HashAll(HashUpdate(h, Head(s)), Tail(s))

\* The digest of a whole archive, as the publisher computes sha256gz.
Sha256(s) == HashAll(HashNew, s)

ErrKinds == {"stream", "gunzip", "tar"}
Entries == {"old", "bin", "base"}

InitX ==
  /\ xArchive \in Archives
  /\ xSha \in {Sha256(a) : a \in Archives}
  /\ xPos = 0
  /\ hasher = HashNew
  /\ xStream = "flowing"
  /\ xPipe = "open"
  /\ shaValidated = FALSE
  /\ extracted = FALSE
  /\ xResult = "pending"
  /\ xErr = None
  /\ xFails = [k \in ErrKinds |-> "idle"]
  /\ xRootExists = TRUE
  /\ xRoot \in {{}, {"old", "bin"}}

IdleX ==
  /\ xArchive = <<>>
  /\ xSha = 0
  /\ xPos = 0
  /\ hasher = 0
  /\ xStream = "idle"
  /\ xPipe = "idle"
  /\ shaValidated = FALSE
  /\ extracted = FALSE
  /\ xResult = "idle"
  /\ xErr = None
  /\ xFails = [k \in ErrKinds |-> "idle"]
  /\ xRootExists = FALSE
  /\ xRoot = {}

\* let check = () => { if (shaValidated && extracted) resolve() }
CheckResolves_Either(sv, ex) == sv \/ ex
CheckResolves(sv, ex) == sv /\ ex

\* resolve() / reject(err) settle the promise once; later calls are no-ops.
Settle(to, err) ==
  IF xResult = "pending"
    THEN /\ xResult' = to
         /\ xErr' = err
    ELSE UNCHANGED <<xResult, xErr>>

Check(sv, ex) ==
  IF CheckResolves(sv, ex) THEN Settle("resolved", None)
                           ELSE UNCHANGED <<xResult, xErr>>

\* let fail = (err) => { this._remove(dir).then(() => reject(err)) }
Fail(k) == xFails' = [xFails EXCEPT ![k] = "removing"]

\* stream.on('data', d => hasher.update(d)); the same chunk is piped through
\* gunzip into tar.extract(dir), which creates dir/<base>/... as it goes.
StreamData ==
  /\ xStream = "flowing"
  /\ xPos < Len(xArchive)
  /\ xPos' = xPos + 1
  /\ hasher' = HashUpdate(hasher, xArchive[xPos + 1])
  /\ IF xPipe = "open"
       THEN /\ xRoot' = xRoot \cup {"base"}
            /\ xRootExists' = TRUE
       ELSE UNCHANGED <<xRoot, xRootExists>>
  /\ UNCHANGED <<xArchive, xSha, xStream, xPipe, shaValidated, extracted,
                 xResult, xErr, xFails>>

\* stream.on('end', ...): compare the digest with the expected sha.
StreamEnd ==
  /\ xStream = "flowing"
  /\ xPos = Len(xArchive)
  /\ xStream' = "ended"
  /\ IF xSha = hasher
       THEN /\ shaValidated' = TRUE
            /\ Check(TRUE, extracted)
       ELSE /\ UNCHANGED shaValidated
            /\ Settle("rejected", "sha")
  /\ UNCHANGED <<xArchive, xSha, xPos, hasher, xPipe, extracted, xFails,
                 xRootExists, xRoot>>

\* stream.on('error', fail)
StreamError ==
  /\ xStream = "flowing"
  /\ xStream' = "errored"
  /\ Fail("stream")
  /\ UNCHANGED <<xArchive, xSha, xPos, hasher, xPipe, shaValidated, extracted,
                 xResult, xErr, xRootExists, xRoot>>

\* gunzip.on('error', fail)
GunzipError ==
  /\ xPipe = "open"
  /\ xStream # "idle"
  /\ xPipe' = "broken"
  /\ Fail("gunzip")
  /\ UNCHANGED <<xArchive, xSha, xPos, hasher, xStream, shaValidated,
                 extracted, xResult, xErr, xRootExists, xRoot>>

\* extract.on('error', fail): a tar error, or an entry of unknown type.
TarError ==
  /\ xPipe = "open"
  /\ xStream # "idle"
  /\ xPipe' = "broken"
  /\ Fail("tar")
  /\ UNCHANGED <<xArchive, xSha, xPos, hasher, xStream, shaValidated,
                 extracted, xResult, xErr, xRootExists, xRoot>>

\* extract.on('finish', ...): every chunk went through the pipe.  The handler
\* may run before or after the 'end' handler above.
TarFinish ==
  /\ xPipe = "open"
  /\ xStream \in {"flowing", "ended"}
  /\ xPos = Len(xArchive)
  /\ xPipe' = "finished"
  /\ extracted' = TRUE
  /\ Check(shaValidated, TRUE)
  /\ UNCHANGED <<xArchive, xSha, xPos, hasher, xStream, shaValidated, xFails,
                 xRootExists, xRoot>>

\* this._remove(dir): dir is clientRoot, the directory extract was given.
FailRemove(k) ==
  /\ xFails[k] = "removing"
  /\ xFails' = [xFails EXCEPT ![k] = "removed"]
  /\ xRootExists' = FALSE
  /\ xRoot' = {}
  /\ UNCHANGED <<xArchive, xSha, xPos, hasher, xStream, xPipe, shaValidated,
                 extracted, xResult, xErr>>

\* .then(() => reject(err))
FailReject(k) ==
  /\ xFails[k] = "removed"
  /\ xFails' = [xFails EXCEPT ![k] = "done"]
  /\ Settle("rejected", k)
  /\ UNCHANGED <<xArchive, xSha, xPos, hasher, xStream, xPipe, shaValidated,
                 extracted, xRootExists, xRoot>>


(***************************************************************************)
(* Spec: Updater.update and CLI.run over the locks and the client tree     *)
(***************************************************************************)
Versions == {"1.2.3", "1.3.0"}
Bins == {"heroku", "sfdx"}

\* new deps.Lock(config, `${this.autoupdatefile}.lock`) in Updater, and
\* new Lock(this.config), with the default lockfile, in CLI.run.
UpdaterLockfile == "autoupdate.lock"
DefaultLockfile == "update.lock"
LockFiles == {UpdaterLockfile, DefaultLockfile}

\* Lock: writerAcquire blocks until no reader or writer holds the path,
\* readerAcquire blocks until no writer holds it.
CanWrite(p, f) == writer[f] = None /\ readers[f] \ {p} = {}
CanRead(p, f) == writer[f] \in {None, p}
WriterAcquire(p, f) == writer' = [writer EXCEPT ![f] = p]
WriterRelease(p, f) ==
  writer' = [writer EXCEPT ![f] = IF writer[f] = p THEN None ELSE writer[f]]
ReaderAcquire(p, f) == readers' = [readers EXCEPT ![f] = readers[f] \cup {p}]
ReaderRelease(p, f) == readers' = [readers EXCEPT ![f] = readers[f] \ {p}]

\* A file name under <version>/bin: the bin name, with .cmd on Windows.
BinFile(name, win) == [name |-> name, cmd |-> win]

\* clientBin when no link exists at that path.
NoLink == [version |-> None, file |-> BinFile(None, FALSE)]

\* The file the release tree of any version ships: bin/<config.bin>.
TreeBin == BinFile(configBin, windows)

\* clientBin resolves to <clientRoot>/<v>/bin/<TreeBin>.
ResolvesTo(v) ==
  /\ clientBin # NoLink
  /\ clientBin.version = v
  /\ v \in trees
  /\ clientBin.file = TreeBin

InitU ==
  /\ pc = [p \in Procs |-> "idle"]
  /\ role = [p \in Procs |-> None]
  /\ writer = [f \in LockFiles |-> None]
  /\ readers = [f \in LockFiles |-> {}]
  /\ configBin \in Bins
  /\ windows \in BOOLEAN
  /\ \/ /\ rootExists = TRUE
        /\ trees = {"1.2.3"}
        /\ clientBin = [version |-> "1.2.3", file |-> TreeBin]
     \/ /\ rootExists = FALSE
        /\ trees = {}
        /\ clientBin = NoLink
  /\ baseDirs = {}
  /\ manifestVersion = [p \in Procs |-> None]
  /\ prevVersion = [p \in Procs |-> None]
  /\ runs = [p \in Procs |-> 0]

IdleU ==
  /\ pc = [p \in Procs |-> "idle"]
  /\ role = [p \in Procs |-> None]
  /\ writer = [f \in LockFiles |-> None]
  /\ readers = [f \in LockFiles |-> {}]
  /\ configBin = "heroku"
  /\ windows = FALSE
  /\ rootExists = FALSE
  /\ trees = {}
  /\ clientBin = NoLink
  /\ baseDirs = {}
  /\ manifestVersion = [p \in Procs |-> None]
  /\ prevVersion = [p \in Procs |-> None]
  /\ runs = [p \in Procs |-> 0]

Goto(p, l) == pc' = [pc EXCEPT ![p] = l]

\* Update.run reaches `await this.updater.update(manifest)`.
StartUpdate(p, m) ==
  /\ pc[p] = "idle"
  /\ runs[p] < MaxRuns
  /\ runs' = [runs EXCEPT ![p] = runs[p] + 1]
  /\ role' = [role EXCEPT ![p] = "update"]
  /\ manifestVersion' = [manifestVersion EXCEPT ![p] = m]
  /\ Goto(p, "acquire")
  /\ UNCHANGED <<writer, readers, rootExists, trees, baseDirs, clientBin,
                 configBin, windows, prevVersion>>

\* The release tree clientBin points into, if it is on disk (recorded when
\* update() starts its work, to state what update() must leave in place).
CurrentTree ==
  IF clientBin # NoLink /\ clientBin.version \in trees
    THEN clientBin.version ELSE None

\* const downgrade = await this.lock.write()
UpdateAcquire_NoWait(p) ==
  /\ pc[p] = "acquire"
  /\ WriterAcquire(p, UpdaterLockfile)
  /\ prevVersion' = [prevVersion EXCEPT ![p] = CurrentTree]
  /\ Goto(p, "locked")
  /\ UNCHANGED <<role, readers, rootExists, trees, baseDirs, clientBin,
                 configBin, windows, manifestVersion, runs>>
UpdateAcquire(p) ==
  /\ pc[p] = "acquire"
  /\ CanWrite(p, UpdaterLockfile)
  /\ WriterAcquire(p, UpdaterLockfile)
  /\ prevVersion' = [prevVersion EXCEPT ![p] = CurrentTree]
  /\ Goto(p, "locked")
  /\ UNCHANGED <<role, readers, rootExists, trees, baseDirs, clientBin,
                 configBin, windows, manifestVersion, runs>>

\* let { response: stream } = await this.http.stream(url); a failed request
\* throws out of update() with the lock still held.
UpdateStream(p) ==
  /\ pc[p] = "locked"
  /\ \E ok \in BOOLEAN : Goto(p, IF ok THEN "streaming" ELSE "failed")
  /\ UNCHANGED <<role, writer, readers, rootExists, trees, baseDirs, clientBin,
                 configBin, windows, manifestVersion, prevVersion, runs>>

\* await this._mkdirp(this.clientRoot); await this._remove(output)
UpdateClear(p) ==
  /\ pc[p] = "streaming"
  /\ rootExists' = TRUE
  /\ trees' = trees \ {manifestVersion[p]}
  /\ Goto(p, "cleared")
  /\ UNCHANGED <<role, writer, readers, baseDirs, clientBin, configBin,
                 windows, manifestVersion, prevVersion, runs>>

\* await this.extract(stream, this.clientRoot, manifest.sha256gz), by its
\* outcome: resolved; rejected on a SHA mismatch, the extracted files left in
\* place; rejected through fail(), which removes clientRoot first.
UpdateExtract(p) ==
  /\ pc[p] = "cleared"
  /\ \E outcome \in {"ok", "sha", "fail"} :
       CASE outcome = "ok" ->
              /\ rootExists' = TRUE
              /\ baseDirs' = baseDirs \cup {manifestVersion[p]}
              /\ Goto(p, "extracted")
              /\ UNCHANGED <<trees, clientBin>>
         [] outcome = "sha" ->
              /\ rootExists' = TRUE
              /\ baseDirs' = baseDirs \cup {manifestVersion[p]}
              /\ Goto(p, "failed")
              /\ UNCHANGED <<trees, clientBin>>
         [] outcome = "fail" ->
              /\ rootExists' = FALSE
              /\ baseDirs' = {}
              /\ trees' = {}
              /\ clientBin' = NoLink
              /\ Goto(p, "failed")
  /\ UNCHANGED <<role, writer, readers, configBin, windows, manifestVersion,
                 prevVersion, runs>>

\* await this._rename(path.join(this.clientRoot, base), output)
UpdateRename(p) ==
  /\ pc[p] = "extracted"
  /\ IF manifestVersion[p] \in baseDirs /\ manifestVersion[p] \notin trees
       THEN /\ baseDirs' = baseDirs \ {manifestVersion[p]}
            /\ trees' = trees \cup {manifestVersion[p]}
            /\ Goto(p, "renamed")
       ELSE /\ Goto(p, "failed")
            /\ UNCHANGED <<baseDirs, trees>>
  /\ UNCHANGED <<role, writer, readers, rootExists, clientBin, configBin,
                 windows, manifestVersion, prevVersion, runs>>

\* let bin = this.config.windows ? 'heroku.cmd' : 'heroku'
\* let dst = path.join('..', manifest.version, 'bin', bin)
CreateBinTarget(m) == [version |-> m, file |-> BinFile("heroku", windows)]

\* file.symlink: (re)creates the clientBin link to the new version's bin.
Symlink(target) ==
  IF rootExists THEN clientBin' = target ELSE UNCHANGED clientBin

\* await this._createBin(manifest)
UpdateCreateBin(p) ==
  /\ pc[p] = "renamed"
  /\ Symlink(CreateBinTarget(manifestVersion[p]))
  /\ Goto(p, "linked")
  /\ UNCHANGED <<role, writer, readers, rootExists, trees, baseDirs,
                 configBin, windows, manifestVersion, prevVersion, runs>>

\* await downgrade(); update() returns.
UpdateDowngrade(p) ==
  /\ pc[p] = "linked"
  /\ WriterRelease(p, UpdaterLockfile)
  /\ Goto(p, "updated")
  /\ UNCHANGED <<role, readers, rootExists, trees, baseDirs, clientBin,
                 configBin, windows, manifestVersion, prevVersion, runs>>

\* CLI.run: const dispatcher = new Dispatcher(this.config);
\* await dispatcher.findCommand(id ...).  Resolving a command reads the client
\* tree, which an invocation does under a reader lock on the default lockfile.
StartCommand(p) ==
  /\ pc[p] = "idle"
  /\ runs[p] < MaxRuns
  /\ runs' = [runs EXCEPT ![p] = runs[p] + 1]
  /\ role' = [role EXCEPT ![p] = "command"]
  /\ Goto(p, "find")
  /\ UNCHANGED <<writer, readers, rootExists, trees, baseDirs, clientBin,
                 configBin, windows, manifestVersion, prevVersion>>

FindCommand(p) ==
  /\ pc[p] = "find"
  /\ CanRead(p, DefaultLockfile)
  /\ ReaderAcquire(p, DefaultLockfile)
  /\ Goto(p, "found")
  /\ UNCHANGED <<role, writer, rootExists, trees, baseDirs, clientBin,
                 configBin, windows, manifestVersion, prevVersion, runs>>

\* let lock = new Lock(this.config); await lock.unread()
Unread(p) ==
  /\ pc[p] = "found"
  /\ ReaderRelease(p, DefaultLockfile)
  /\ Goto(p, "prerun")
  /\ UNCHANGED <<role, writer, rootExists, trees, baseDirs, clientBin,
                 configBin, windows, manifestVersion, prevVersion, runs>>

\* await this.hooks.run('prerun', opts); this.cmd = await Command.run(...)
RunCommand(p) ==
  /\ pc[p] = "prerun"
  /\ Goto(p, "running")
  /\ UNCHANGED <<role, writer, readers, rootExists, trees, baseDirs,
                 clientBin, configBin, windows, manifestVersion, prevVersion,
                 runs>>

\* Command.run resolves; CLI.run flushes stdout and calls cli.exit(0).
FinishCommand(p) ==
  /\ pc[p] = "running"
  /\ Goto(p, "finished")
  /\ UNCHANGED <<role, writer, readers, rootExists, trees, baseDirs,
                 clientBin, configBin, windows, manifestVersion, prevVersion,
                 runs>>

\* The process ends; the locks it still holds are stale and reclaimable.
Exit(p) ==
  /\ pc[p] \in {"updated", "failed", "finished"}
  /\ writer' = [f \in LockFiles |-> IF writer[f] = p THEN None ELSE writer[f]]
  /\ readers' = [f \in LockFiles |-> readers[f] \ {p}]
  /\ role' = [role EXCEPT ![p] = None]
  /\ manifestVersion' = [manifestVersion EXCEPT ![p] = None]
  /\ prevVersion' = [prevVersion EXCEPT ![p] = None]
  /\ Goto(p, "idle")
  /\ UNCHANGED <<rootExists, trees, baseDirs, clientBin, configBin, windows,
                 runs>>


(***************************************************************************)
(* SpecAuto: Updater.autoupdate(force) called from CLI.run                 *)
(***************************************************************************)
AutoT0 == FiveHours + 2

InitA ==
  /\ apc = [p \in Procs |-> "idle"]
  /\ now = AutoT0
  /\ aufile \in {Absent, 0, 1, 2, AutoT0 - 1, AutoT0}
  /\ force = [p \in Procs |-> FALSE]
  /\ mock \in BOOLEAN
  /\ needed = [p \in Procs |-> None]
  /\ chk = [p \in Procs |-> [stat |-> None, age |-> 0]]
  /\ spawned = [p \in Procs |-> FALSE]
  /\ spawnTried = [p \in Procs |-> FALSE]
  /\ startT = [p \in Procs |-> 0]
  /\ binResolved = [p \in Procs |-> FALSE]

IdleA ==
  /\ apc = [p \in Procs |-> "idle"]
  /\ now = 0
  /\ aufile = Absent
  /\ force = [p \in Procs |-> FALSE]
  /\ mock = FALSE
  /\ needed = [p \in Procs |-> None]
  /\ chk = [p \in Procs |-> [stat |-> None, age |-> 0]]
  /\ spawned = [p \in Procs |-> FALSE]
  /\ spawnTried = [p \in Procs |-> FALSE]
  /\ startT = [p \in Procs |-> 0]
  /\ binResolved = [p \in Procs |-> FALSE]

AGoto(p, l) == apc' = [apc EXCEPT ![p] = l]

\* deps.file.stat(this.autoupdatefile): the mtime, ENOENT, or another error.
Stat(fault) ==
  IF fault THEN "EACCES" ELSE IF aufile = Absent THEN "ENOENT" ELSE "ok"

\* autoupdateNeeded(): m.isBefore(moment().subtract(5, 'hours')); the catch
\* returns true on ENOENT, and on any other error calls cli.error(err.stack)
\* first, which ends the invocation ("error").
AutoupdateNeeded_Always(stat, mt, t) ==
  IF stat \in {"ok", "ENOENT"} THEN "true" ELSE "error"
AutoupdateNeeded(stat, mt, t) ==
  CASE stat = "ok" -> IF mt < t - FiveHours THEN "true" ELSE "false"
    [] stat = "ENOENT" -> "true"
    [] OTHER -> "error"

\* CLI.run: await updater.autoupdate(); autoupdate begins with
\* warnIfUpdateAvailable(), whose errors _catch swallows.
AutoStart(p, f) ==
  /\ apc[p] = "idle"
  /\ force' = [force EXCEPT ![p] = f]
  /\ startT' = [startT EXCEPT ![p] = now]
  /\ AGoto(p, "check")
  /\ UNCHANGED <<now, aufile, mock, needed, chk, spawned, spawnTried,
                 binResolved>>

\* if (!force && !await this.autoupdateNeeded()) return
\* cli.error exits the process, or throws ExitError when config.mock is set;
\* the throw is caught by autoupdate's catch and demoted to cli.warn.
AutoCheck(p) ==
  /\ apc[p] = "check"
  /\ IF force[p]
       THEN /\ AGoto(p, "touch")
            /\ UNCHANGED <<needed, chk>>
       ELSE \E fault \in BOOLEAN :
              LET st == Stat(fault)
                  r == AutoupdateNeeded(st, aufile, now)
              IN /\ chk' = [chk EXCEPT ![p] =
                       [stat |-> st, age |-> IF st = "ok" THEN now - aufile ELSE 0]]
                 /\ needed' = [needed EXCEPT ![p] = r]
                 /\ AGoto(p, CASE r = "true" -> "touch"
                               [] r = "false" -> "returned"
                               [] OTHER -> IF mock THEN "returned" ELSE "fatal")
  /\ UNCHANGED <<now, aufile, force, mock, spawned, spawnTried, startT,
                 binResolved>>

\* await deps.file.outputFile(this.autoupdatefile, ''); a failed write is
\* caught and warned.
AutoTouch_Skip(p) ==
  /\ apc[p] = "touch"
  /\ AGoto(p, "binpath")
  /\ UNCHANGED <<now, aufile, force, mock, needed, chk, spawned, spawnTried,
                 startT, binResolved>>
AutoTouch(p) ==
  /\ apc[p] = "touch"
  /\ \E ok \in BOOLEAN :
       IF ok THEN /\ aufile' = now
                  /\ AGoto(p, "binpath")
             ELSE /\ UNCHANGED aufile
                  /\ AGoto(p, "returned")
  /\ UNCHANGED <<now, force, mock, needed, chk, spawned, spawnTried, startT,
                 binResolved>>

\* get binPath(): clientBin when updates are enabled and it exists, else
\* process.env.CLI_BINPATH || this.config.bin
BinPath(updateDisabled, clientBinExists, envBinPath, bin) ==
  IF ~updateDisabled /\ clientBinExists THEN "clientBin"
  ELSE IF envBinPath # "" THEN envBinPath ELSE bin

\* const binPath = await this.binPath; if (!binPath) return
AutoBinPath(p) ==
  /\ apc[p] = "binpath"
  /\ binResolved' = [binResolved EXCEPT ![p] = TRUE]
  /\ \E ud \in BOOLEAN, ex \in BOOLEAN, env \in {"", "/opt/cli"},
        bin \in {"", "heroku"} :
       AGoto(p, IF BinPath(ud, ex, env, bin) = "" THEN "returned" ELSE "openlog")
  /\ UNCHANGED <<now, aufile, force, mock, needed, chk, spawned, spawnTried,
                 startT>>

\* let fd = await deps.file.open(this.autoupdatelogfile, 'a')
AutoOpenLog(p) ==
  /\ apc[p] = "openlog"
  /\ \E ok \in BOOLEAN : AGoto(p, IF ok THEN "spawn" ELSE "returned")
  /\ UNCHANGED <<now, aufile, force, mock, needed, chk, spawned, spawnTried,
                 startT, binResolved>>

\* this.spawnBinPath(binPath, ['update', '--autoupdate'], ...); a spawn error
\* is warned.
AutoSpawn(p) ==
  /\ apc[p] = "spawn"
  /\ spawnTried' = [spawnTried EXCEPT ![p] = TRUE]
  /\ \E ok \in BOOLEAN : spawned' = [spawned EXCEPT ![p] = ok]
  /\ AGoto(p, "returned")
  /\ UNCHANGED <<now, aufile, force, mock, needed, chk, startT, binResolved>>

\* CLI.run goes on: hooks.run('init'), then the dispatch.
AutoDispatch(p) ==
  /\ apc[p] = "returned"
  /\ AGoto(p, "dispatch")
  /\ UNCHANGED <<now, aufile, force, mock, needed, chk, spawned, spawnTried,
                 startT, binResolved>>

AutoTick ==
  /\ now < AutoT0 + MaxTicks
  /\ now' = now + 1
  /\ UNCHANGED <<apc, aufile, force, mock, needed, chk, spawned, spawnTried,
                 startT, binResolved>>


(***************************************************************************)
(* SpecDebounce: Update.run and Update.debounce                            *)
(***************************************************************************)
DebT0 == Hour + 2

InitD ==
  /\ dpc = "start"
  /\ dnow = DebT0
  /\ lastrun \in {Absent, 0, 1, 2, 3, DebT0 - Minute, DebT0}
  /\ dAuto \in BOOLEAN
  /\ dSleeps = 0
  /\ dEarly = None
  /\ dTouches = 0
  /\ dTicks = 0

IdleD ==
  /\ dpc = "idle"
  /\ dnow = 0
  /\ lastrun = Absent
  /\ dAuto = FALSE
  /\ dSleeps = 0
  /\ dEarly = None
  /\ dTouches = 0
  /\ dTicks = 0

\* this.updater.lastrunfile: the marker of the previous attempt, whose mtime
\* the variable lastrun holds.
lastrunfile == lastrun

\* const waitUntil = m.add(1, 'hour'); waitUntil.isAfter(deps.moment())
DebounceWaits_Before(m, t) == m + Hour < t
DebounceWaits(m, t) == m + Hour > t

\* if (this.flags.autoupdate) await this.debounce() else { errlog = ... }
UpdateRunStart ==
  /\ dpc = "start"
  /\ dpc' = IF dAuto THEN "debounce" ELSE "manual"
  /\ UNCHANGED <<dnow, lastrun, dAuto, dSleeps, dEarly, dTouches, dTicks>>

\* debounce(): stat the marker (a missing marker rejects the run), then
\* either log and start the one minute wait, or log `time to update` and
\* return.
Debounce ==
  /\ dpc = "debounce"
  /\ IF lastrunfile = Absent
       THEN /\ dpc' = "threw"
            /\ UNCHANGED dEarly
       ELSE /\ dpc' = IF DebounceWaits(lastrunfile, dnow) THEN "sleeping"
                                                          ELSE "returned"
            /\ dEarly' = IF dEarly = None
                           THEN (IF lastrunfile + Hour > dnow THEN "yes" ELSE "no")
                           ELSE dEarly
  /\ UNCHANGED <<dnow, lastrun, dAuto, dSleeps, dTouches, dTicks>>

\* await wait(60 * 1000); return this.debounce()
DebounceWake ==
  /\ dpc = "sleeping"
  /\ dnow' = dnow + Minute
  /\ dSleeps' = dSleeps + 1
  /\ dpc' = "debounce"
  /\ UNCHANGED <<lastrun, dAuto, dEarly, dTouches, dTicks>>

\* let manifest = await this.updater.fetchManifest(channel)
UpdateRunFetch ==
  /\ dpc \in {"returned", "manual"}
  /\ dpc' = "fetched"
  /\ UNCHANGED <<dnow, lastrun, dAuto, dSleeps, dEarly, dTouches, dTicks>>

\* Another invocation touches the marker.
TouchMarker ==
  /\ dpc \in {"debounce", "sleeping"}
  /\ dTouches < MaxTouches
  /\ dTouches' = dTouches + 1
  /\ lastrun' = dnow
  /\ UNCHANGED <<dpc, dnow, dAuto, dSleeps, dEarly, dTicks>>

DebTick ==
  /\ dpc \in {"start", "debounce", "sleeping", "returned"}
  /\ dTicks < MaxTicks
  /\ dTicks' = dTicks + 1
  /\ dnow' = dnow + 1
  /\ UNCHANGED <<dpc, lastrun, dAuto, dSleeps, dEarly, dTouches>>


(***************************************************************************)
(* SpecCmd: the `update` command, Update.run, run by one process after     *)
(* another: manifest check, shouldUpdate, Updater.update, Updater.tidy.    *)
(* Updater.update is one step here (its interleavings are those of Spec).  *)
(***************************************************************************)
TwentyFourHours == 24 * Hour   \* moment().subtract(24, 'hours')

CmdVersions == {"1.1.0", "1.2.3", "1.3.0"}
Channels == {"stable", "beta"}
Priorities == {Absent, 0, 50}  \* manifest.priority; Absent: undefined
Chances == {49, 50}         \* Math.random() * 100, in [0, 100)

\* Entries of clientRoot: the directory of the clientBin link, an entry
\* named client, and one directory per release tree.
Names == {"bin", "client"} \cup CmdVersions

CmdT0 == 26 * Hour
Ages == {23 * Hour, 25 * Hour}

NoManifest == [version |-> None, channel |-> None, priority |-> Absent]

\* file.ls(root) of an absent or empty clientRoot.
NoFiles == [n \in Names |-> Absent]

InitC ==
  /\ cpc = "idle"
  /\ cnow = CmdT0
  /\ cVersion = "1.2.3"
  /\ cChannel = "stable"
  /\ cDisabled \in BOOLEAN
  /\ cAutoupdate = FALSE
  /\ cArg = None
  /\ cManifest = NoManifest
  /\ cChance = 0
  /\ cDecision = None
  /\ cRootExists \in BOOLEAN
  /\ \E b, t \in Ages, o \in Ages \cup {Absent}, hasClient \in BOOLEAN :
       files = IF cRootExists
                 THEN [n \in Names |->
                         CASE n = "bin" -> CmdT0 - b
                           [] n = "1.2.3" -> CmdT0 - t
                           [] n = "1.1.0" -> IF o # Absent THEN CmdT0 - o ELSE Absent
                           [] n = "client" -> IF hasClient THEN 0 ELSE Absent
                           [] OTHER -> Absent]
                 ELSE NoFiles
  /\ cLink = IF cRootExists THEN "1.2.3" ELSE None
  /\ cDownloads = 0
  /\ cCmds = 0
  /\ cTicks = 0

IdleC ==
  /\ cpc = "off"
  /\ cnow = 0
  /\ cVersion = None
  /\ cChannel = None
  /\ cDisabled = FALSE
  /\ cAutoupdate = FALSE
  /\ cArg = None
  /\ cManifest = NoManifest
  /\ cChance = 0
  /\ cDecision = None
  /\ cRootExists = FALSE
  /\ files = NoFiles
  /\ cLink = None
  /\ cDownloads = 0
  /\ cCmds = 0
  /\ cTicks = 0

\* Update.shouldUpdate: false only for an autoupdate whose draw is below a
\* truthy manifest.priority.
ShouldUpdate_AnyRun(autoupdate, priority, chance) ==
  ~(priority # Absent /\ priority # 0 /\ chance < priority)

ShouldUpdate(autoupdate, priority, chance) ==
  ~(autoupdate /\ priority # Absent /\ priority # 0 /\ chance < priority)

\* Updater.tidy, the test of line 194: entries that are never removed.
TidyKeeps(name, version) == name \in {"client", version}

\* Updater.tidy, the test of line 196: mtime is before now - 24h.
TidyExpired_Never(mt, t) == FALSE

TidyExpired(mt, t) == mt < t - TwentyFourHours

\* clientRoot after the tidy pass of a process running `version` at time t.
Tidy(fs, version, t) ==
  [n \in Names |->
     IF fs[n] # Absent /\ ~TidyKeeps(n, version) /\ TidyExpired(fs[n], t)
       THEN Absent ELSE fs[n]]

\* The release trees on disk.
Trees(fs) == {v \in CmdVersions : fs[v] # Absent}

\* A process starts `update [channel] [--autoupdate]`.  It runs the binary
\* clientBin points to when there is one.
CmdStart(auto, arg) ==
  /\ cpc = "idle"
  /\ cCmds < MaxCmds
  /\ cpc' = "start"
  /\ cAutoupdate' = auto
  /\ cArg' = arg
  /\ cVersion' = IF cLink # None THEN cLink ELSE cVersion
  /\ cManifest' = NoManifest
  /\ cDecision' = None
  /\ UNCHANGED <<cnow, cChannel, cDisabled, cChance, cRootExists, files,
                 cLink, cDownloads, cCmds, cTicks>>

\* Update.run lines 36-51: updateDisabled, fetchManifest, the version and
\* channel test, shouldUpdate.
CmdFetch(mv, pr, chance, ok) ==
  /\ cpc = "start"
  /\ LET channel == IF cArg # None THEN cArg ELSE cChannel
         manifest == [version |-> mv, channel |-> channel, priority |-> pr]
     IN  IF cDisabled
           THEN /\ cDecision' = "disabled"
                /\ cpc' = "post"
                /\ UNCHANGED <<cManifest, cChance>>
         ELSE IF ~ok
           THEN /\ cDecision' = "threw"
                /\ cpc' = "ended"
                /\ UNCHANGED <<cManifest, cChance>>
         ELSE /\ cManifest' = manifest
              /\ cChance' = chance
              /\ IF cVersion = mv /\ channel = cChannel
                   THEN cDecision' = "noop" /\ cpc' = "post"
                 ELSE IF ShouldUpdate(cAutoupdate, pr, chance)
                   THEN cDecision' = "update" /\ cpc' = "update"
                 ELSE cDecision' = "skip" /\ cpc' = "post"
  /\ UNCHANGED <<cnow, cVersion, cChannel, cDisabled, cAutoupdate, cArg,
                 cRootExists, files, cLink, cDownloads, cCmds, cTicks>>

\* Update.run line 52: await this.updater.update(manifest).
\*   "ok"       the tree of manifest.version is replaced and clientBin
\*              created
\*   "nostream" http.stream rejects: nothing on disk has changed
\*   "fail"     extract fails: fail() removes clientRoot
CmdUpdate(outcome) ==
  /\ cpc = "update"
  /\ CASE outcome = "ok" ->
            /\ cRootExists' = TRUE
            /\ files' = [files EXCEPT ![cManifest.version] = cnow,
                                      !["bin"] = cnow]
            /\ cLink' = cManifest.version
            /\ cDownloads' = cDownloads + 1
            /\ cpc' = "post"
       [] outcome = "nostream" ->
            /\ cpc' = "ended"
            /\ UNCHANGED <<cRootExists, files, cLink, cDownloads>>
       [] outcome = "fail" ->
            /\ cRootExists' = FALSE
            /\ files' = NoFiles
            /\ cLink' = None
            /\ cDownloads' = cDownloads + 1
            /\ cpc' = "ended"
  /\ UNCHANGED <<cnow, cVersion, cChannel, cDisabled, cAutoupdate, cArg,
                 cManifest, cChance, cDecision, cCmds, cTicks>>

\* Update.run lines 55-60: fetchVersion(true), PluginsUpdate.run, logChop.
\* fetchVersion and PluginsUpdate.run may throw, which ends the command.
CmdPost(ok) ==
  /\ cpc = "post"
  /\ cpc' = IF ok THEN "tidy" ELSE "ended"
  /\ UNCHANGED <<cnow, cVersion, cChannel, cDisabled, cAutoupdate, cArg,
                 cManifest, cChance, cDecision, cRootExists, files, cLink,
                 cDownloads, cCmds, cTicks>>

\* Update.run line 62: await this.updater.tidy().  Removing the entry bin
\* removes the clientBin link inside it.
CmdTidy ==
  /\ cpc = "tidy"
  /\ cpc' = "tidied"
  /\ IF ~cRootExists
       THEN UNCHANGED <<files, cLink>>
       ELSE /\ files' = Tidy(files, cVersion, cnow)
            /\ cLink' = IF Tidy(files, cVersion, cnow)["bin"] = Absent
                          THEN None ELSE cLink
  /\ UNCHANGED <<cnow, cVersion, cChannel, cDisabled, cAutoupdate, cArg,
                 cManifest, cChance, cDecision, cRootExists, cDownloads,
                 cCmds, cTicks>>

\* Update.run lines 63-66, or the command ends with the error thrown.
CmdDone ==
  /\ cpc \in {"tidied", "ended"}
  /\ cpc' = "idle"
  /\ cCmds' = cCmds + 1
  /\ cAutoupdate' = FALSE
  /\ cArg' = None
  /\ cManifest' = NoManifest
  /\ cChance' = 0
  /\ cDecision' = None
  /\ UNCHANGED <<cnow, cVersion, cChannel, cDisabled, cRootExists, files,
                 cLink, cDownloads, cTicks>>

\* deps.moment(): an hour passes.
CmdTick ==
  /\ cpc # "off"
  /\ cTicks < MaxHours
  /\ cTicks' = cTicks + 1
  /\ cnow' = cnow + Hour
  /\ UNCHANGED <<cpc, cVersion, cChannel, cDisabled, cAutoupdate, cArg,
                 cManifest, cChance, cDecision, cRootExists, files, cLink,
                 cDownloads, cCmds>>


(***************************************************************************)
(* SpecPlugins: UserPlugins.install and UserPlugins.remove (user.js), one  *)
(* operation after another, the plugins writer lock and the dependencies   *)
(* map of userPluginsDir/package.json.                                     *)
(***************************************************************************)
PluginNames == {"heroku-foo", "heroku-bar"}
Tags == {"latest", "beta"}

\* pjson.dependencies: name -> tag, None when the name has no entry.
PJSONs == [PluginNames -> Tags \cup {None}]

InitI ==
  /\ ipc = "idle"
  /\ iOp = None
  /\ iName = None
  /\ iTag = None
  /\ pluginsLock = None
  /\ iAcquired = 0
  /\ iUnlocks = 0
  /\ dependencies \in PJSONs
  /\ iBefore = dependencies
  /\ iErr = None
  /\ iOps = 0

IdleI ==
  /\ ipc = "off"
  /\ iOp = None
  /\ iName = None
  /\ iTag = None
  /\ pluginsLock = None
  /\ iAcquired = 0
  /\ iUnlocks = 0
  /\ dependencies = [n \in PluginNames |-> None]
  /\ iBefore = dependencies
  /\ iErr = None
  /\ iOps = 0

\* addPackageToPJSON(name, version)
AddPackageToPJSON(pjson, name, version) == [pjson EXCEPT ![name] = version]

\* removePackageFromPJSON(name): delete pjson.dependencies[name]
RemovePackageFromPJSON(pjson, name) == [pjson EXCEPT ![name] = None]

\* install(name, tag) or remove(name) is called; the install command is not
\* used for a plugin that is linked under the same name.
PluginsCall(op, name, tag) ==
  /\ ipc = "idle"
  /\ iOps < MaxOps
  /\ (op = "install") => name \notin linkedPlugins
  /\ ipc' = "lock"
  /\ iOp' = op
  /\ iName' = name
  /\ iTag' = IF op = "install" THEN tag ELSE None
  /\ iBefore' = dependencies
  /\ iAcquired' = 0
  /\ iUnlocks' = 0
  /\ iErr' = None
  /\ UNCHANGED <<pluginsLock, dependencies, iOps>>

\* let unlock = await lock.write(this.lockfile, {skipOwnPid: true})
PluginsLock ==
  /\ ipc = "lock"
  /\ pluginsLock = None
  /\ pluginsLock' = "writer"
  /\ iAcquired' = iAcquired + 1
  /\ ipc' = IF iOp = "install" THEN "setup" ELSE "yarn"
  /\ UNCHANGED <<iOp, iName, iTag, iBefore, iUnlocks, dependencies, iErr,
                 iOps>>

\* await unlock()
Unlock ==
  /\ pluginsLock' = None
  /\ iUnlocks' = iUnlocks + 1

\* install lines 63-64: await this.setupUserPlugins() (ends with yarn.exec,
\* which may reject), then addPackageToPJSON(name, tag).
InstallSetup(ok) ==
  /\ ipc = "setup"
  /\ IF ok
       THEN /\ dependencies' = AddPackageToPJSON(dependencies, iName, iTag)
            /\ ipc' = "yarn"
            /\ UNCHANGED iErr
       ELSE /\ ipc' = "threw"
            /\ iErr' = "yarn"
            /\ UNCHANGED dependencies
  /\ UNCHANGED <<iOp, iName, iTag, iBefore, pluginsLock, iAcquired, iUnlocks,
                 iOps>>

\* install line 65: await this.yarn.exec()
InstallYarn(ok) ==
  /\ ipc = "yarn" /\ iOp = "install"
  /\ IF ok
       THEN ipc' = "probe" /\ UNCHANGED iErr
       ELSE ipc' = "threw" /\ iErr' = "yarn"
  /\ UNCHANGED <<iOp, iName, iTag, iBefore, pluginsLock, iAcquired, iUnlocks,
                 dependencies, iOps>>

\* install lines 69-81: require(path) and the `commands` probe.
\*   "ok"          await unlock(); return path
\*   "noload"      require throws: catch { await unlock() ... }
\*   "nocommands"  the Error of line 72 is thrown: catch { await unlock() ... }
InstallProbe(probe) ==
  /\ ipc = "probe"
  /\ Unlock
  /\ CASE probe = "ok" -> ipc' = "done" /\ UNCHANGED iErr
       [] probe = "noload" -> ipc' = "catch" /\ iErr' = "RequireError"
       [] probe = "nocommands" -> ipc' = "catch" /\ iErr' = "NotAPlugin"
  /\ UNCHANGED <<iOp, iName, iTag, iBefore, iAcquired, dependencies, iOps>>

\* install lines 75-77, after await unlock(): out.error(err, false),
\* removePackageFromPJSON(name), out.exit(1).
InstallRevert ==
  /\ ipc = "catch"
  /\ dependencies' = RemovePackageFromPJSON(dependencies, iName)
  /\ ipc' = "exited"
  /\ UNCHANGED <<iOp, iName, iTag, iBefore, pluginsLock, iAcquired, iUnlocks,
                 iErr, iOps>>

\* remove lines 90-91: await this.yarn.exec(['remove', name]); await unlock().
\* `yarn remove` takes the name out of package.json.
RemoveYarn(ok) ==
  /\ ipc = "yarn" /\ iOp = "remove"
  /\ IF ok
       THEN /\ dependencies' = RemovePackageFromPJSON(dependencies, iName)
            /\ Unlock
            /\ ipc' = "done"
            /\ UNCHANGED iErr
       ELSE /\ ipc' = "threw"
            /\ iErr' = "yarn"
            /\ UNCHANGED <<dependencies, pluginsLock, iUnlocks>>
  /\ UNCHANGED <<iOp, iName, iTag, iBefore, iAcquired, iOps>>

\* The operation has ended (returned, rejected or exited); its process
\* ends, and a lock it still holds becomes stale and can be taken again.
PluginsEnd ==
  /\ ipc \in {"done", "threw", "exited"}
  /\ ipc' = "idle"
  /\ pluginsLock' = None
  /\ iOps' = iOps + 1
  /\ UNCHANGED <<iOp, iName, iTag, iBefore, iAcquired, iUnlocks,
                 dependencies, iErr>>


\* The plugin catalog around the user plugins: the linked plugins, the
\* plugin manifest cache (the names with an entry), the last listing and the
\* number of finished operations it was taken after.
InitK ==
  /\ linkedPlugins = {}
  /\ pluginCache \in SUBSET {n \in PluginNames : dependencies[n] # None}
  /\ listing = {}
  /\ listedOps = Absent

IdleK ==
  /\ linkedPlugins = {}
  /\ pluginCache = {}
  /\ listing = {}
  /\ listedOps = Absent

\* UserPlugins.list(): one PluginPath per entry of pjson.dependencies
UserList_None(pjson) == {}
UserList(pjson) == {n \in PluginNames : pjson[n] # None}

\* What a listing shows: the user plugins and the linked plugins.
Catalog == UserList(dependencies) \cup linkedPlugins

\* plugins (Index.run): lists the catalog; deriving a plugin's metadata
\* leaves its entry in the manifest cache.
PluginsIndex ==
  /\ ipc = "idle"
  /\ listing' = Catalog
  /\ pluginCache' = pluginCache \cup Catalog
  /\ listedOps' = iOps
  /\ UNCHANGED linkedPlugins

\* PluginsUninstall.run: await this.yarn('remove', plugin), which rejects for
\* a name that is no dependency, then plugins.clearCache(userPlugin(plugin)).
PluginsUninstall(name, ok) ==
  /\ ipc = "idle"
  /\ iOps < MaxOps
  /\ ok => dependencies[name] # None
  /\ iOp' = "uninstall"
  /\ iName' = name
  /\ iTag' = None
  /\ iBefore' = dependencies
  /\ iAcquired' = 0
  /\ iUnlocks' = 0
  /\ IF ok
       THEN /\ dependencies' = RemovePackageFromPJSON(dependencies, name)
            /\ pluginCache' = pluginCache \ {name}
            /\ ipc' = "done"
            /\ iErr' = None
       ELSE /\ ipc' = "threw"
            /\ iErr' = "yarn"
            /\ UNCHANGED <<dependencies, pluginCache>>
  /\ UNCHANGED <<pluginsLock, iOps, linkedPlugins, listing, listedOps>>

\* plugins:link <path>, as the link test uses it (for a plugin that is not
\* listed): an entry for the directory is recorded, no dependency is
\* installed, the cache entry of the plugin is invalidated.
PluginsLink(name) ==
  /\ ipc = "idle"
  /\ iOps < MaxOps
  /\ name \notin Catalog
  /\ iOp' = "link"
  /\ iName' = name
  /\ iTag' = None
  /\ iBefore' = dependencies
  /\ iAcquired' = 0
  /\ iUnlocks' = 0
  /\ linkedPlugins' = linkedPlugins \cup {name}
  /\ pluginCache' = pluginCache \ {name}
  /\ ipc' = "done"
  /\ iErr' = None
  /\ UNCHANGED <<pluginsLock, dependencies, iOps, listing, listedOps>>


(***************************************************************************)
(* SpecManager: PluginManager (manager.ts): the root manager with its      *)
(* three providers as submanagers, init(), findCommand() and unalias().    *)
(* A command ID is the sequence of its colon-separated segments; the empty *)
(* string is the empty sequence.                                           *)
(***************************************************************************)
EmptyID == <<>>
Segments == {"apps", "info", "run"}
IDs == {EmptyID, <<"apps">>, <<"apps", "info">>, <<"run">>}

\* Order of the segments as strings.
SegRank(s) == CASE s = "apps" -> 1 [] s = "info" -> 2 [] s = "run" -> 3

\* a < b as strings: the comparison Array.prototype.sort uses by default.
\* ':' sorts below every letter, so a proper prefix comes first.
RECURSIVE Less(_, _)
Less(a, b) ==
  IF b = <<>> THEN FALSE
  ELSE IF a = <<>> THEN TRUE
  ELSE IF Head(a) # Head(b) THEN SegRank(Head(a)) < SegRank(Head(b))
  ELSE Less(Tail(a), Tail(b))

RECURSIVE Insert(_, _)
Insert(x, s) ==
  IF s = <<>> THEN <<x>>
  ELSE IF Less(x, Head(s)) THEN <<x>> \o s
  ELSE <<Head(s)>> \o Insert(x, Tail(s))

\* this.commandIDs.sort()
RECURSIVE Sort(_)
Sort(s) == IF s = <<>> THEN <<>> ELSE Insert(Head(s), Sort(Tail(s)))

\* _.compact: drops the falsy values, here the empty string.
RECURSIVE Compact(_)
Compact(s) ==
  IF s = <<>> THEN <<>>
  ELSE IF Head(s) = EmptyID THEN Compact(Tail(s))
  ELSE <<Head(s)>> \o Compact(Tail(s))

\* topicFromID: id.split(':').slice(0, -1).join(':')
TopicFromID(id) == SubSeq(id, 1, Len(id) - 1)

\* The providers, in the order they are registered as submanagers.
Providers == {"user", "linked", "builtin"}
Submanagers == <<"user", "linked", "builtin">>

\* What each provider's _init can find, in any order.
Provided ==
  {f \in [Providers -> SUBSET IDs] :
     /\ f["user"] \subseteq {EmptyID, <<"apps", "info">>}
     /\ f["linked"] \subseteq {<<"apps", "info">>}
     /\ f["builtin"] \subseteq {<<"apps">>, <<"apps", "info">>, <<"run">>}}

RECURSIVE SetToSeq(_)
SetToSeq(S) ==
  IF S = {} THEN <<>>
  ELSE LET x == CHOOSE y \in S : TRUE IN <<x>> \o SetToSeq(S \ {x})

\* config.aliases, as Object.entries lists it: <<canonical ID, aliases>>.
AliasIDs == IDs \ {EmptyID}
AliasEntries == {<<k, {a}>> : k \in AliasIDs, a \in AliasIDs}
AliasMaps ==
  {<<>>} \cup {<<e>> : e \in AliasEntries}
         \cup {<<p[1], p[2]>> :
                 p \in {q \in AliasEntries \X AliasEntries : q[1][1] # q[2][1]}}

\* unalias: the key of the first entry whose aliases include id, else id.
Unalias_Identity(al, id) == id

Unalias(al, id) ==
  IF \E i \in 1..Len(al) : id \in al[i][2]
    THEN al[CHOOSE i \in 1..Len(al) :
              /\ id \in al[i][2]
              /\ \A j \in 1..(i - 1) : id \notin al[j][2]][1]
    ELSE id

\* topics: topic name -> the topic, NoTopic when there is none.  meta names
\* the provider whose declaration (description, hidden) the topic carries,
\* None for a topic nobody declared.
TopicNames == {TopicFromID(id) : id \in IDs} \ {<<>>}
NoTopic == [exists |-> FALSE, meta |-> None, commands |-> <<>>]
NoTopics == [t \in TopicNames |-> NoTopic]

\* mergeTopics(a, b): {...a, ...b, commands: []}: a property b has replaces
\* the one of a.
MergeTopics(a, b) ==
  [exists |-> TRUE,
   meta |-> IF b.meta # None THEN b.meta ELSE a.meta,
   commands |-> <<>>]

\* init lines 68-77: add every command ID to its topic, creating the topic
\* when there is none.
RECURSIVE AddCommands(_, _)
AddCommands(ts, ids) ==
  IF ids = <<>> THEN ts
  ELSE LET id == Head(ids)
           topic == TopicFromID(id)
       IN  IF topic = <<>> THEN AddCommands(ts, Tail(ids))
           ELSE AddCommands(
                  [ts EXCEPT ![topic] =
                     [exists |-> TRUE, meta |-> ts[topic].meta,
                      commands |-> Append(ts[topic].commands, id)]],
                  Tail(ids))

\* init of a provider: it has no submanagers, so lines 67-77 alone act on
\* what its _init found.
SubCommandIDs(own) == Compact(Sort(SetToSeq(own)))

\* The topics provider m declared in its _init, then lines 67-77.
DeclaredTopics(m, decl) ==
  [t \in TopicNames |->
     IF t \in decl THEN [exists |-> TRUE, meta |-> m, commands |-> <<>>]
     ELSE NoTopic]
SubTopics(m, own, decl) ==
  AddCommands(DeclaredTopics(m, decl), SubCommandIDs(own))
NoDeclared == [m \in Providers |-> {}]

\* init lines 61-66 for the root: concatenate the submanagers' command IDs
\* and merge their topics.
RECURSIVE MergeSubmanagers(_, _, _, _, _)
MergeSubmanagers(ids, ts, ms, sub, decl) ==
  IF ms = <<>> THEN [commandIDs |-> ids, topics |-> ts]
  ELSE LET m == Head(ms)
           mt == SubTopics(m, sub[m], decl[m])
       IN  MergeSubmanagers(
             ids \o SubCommandIDs(sub[m]),
             [t \in TopicNames |->
                IF mt[t].exists THEN MergeTopics(ts[t], mt[t]) ELSE ts[t]],
             Tail(ms), sub, decl)

\* init lines 61-77 as one step: merge, sort, compact, add the commands.
InitMerge(ids0, ts0, sub, decl) ==
  LET merged == MergeSubmanagers(ids0, ts0, Submanagers, sub, decl)
      ids == Compact(Sort(merged.commandIDs))
  IN  [commandIDs |-> ids, topics |-> AddCommands(merged.topics, ids)]

\* The guard of init: if (this.initialized) return
InitGuard_Off(init) == FALSE

InitGuard(init) == init

InitM ==
  /\ mpc = "idle"
  /\ provided \in Provided
  /\ aliases \in AliasMaps
  /\ initialized = FALSE
  /\ commandIDs = <<>>
  /\ topics = NoTopics
  /\ found = [id |-> EmptyID, provider |-> None, command |-> EmptyID]
  /\ mInits = 0

IdleM ==
  /\ mpc = "off"
  /\ provided = [p \in Providers |-> {}]
  /\ aliases = <<>>
  /\ initialized = FALSE
  /\ commandIDs = <<>>
  /\ topics = NoTopics
  /\ found = [id |-> EmptyID, provider |-> None, command |-> EmptyID]
  /\ mInits = 0

\* init() is called: lines 56-59, up to the awaits.
MgrInitCall ==
  /\ mpc = "idle"
  /\ mInits < MaxInits
  /\ mInits' = mInits + 1
  /\ mpc' = IF InitGuard(initialized) THEN "idle" ELSE "awaiting"
  /\ UNCHANGED <<provided, aliases, initialized, commandIDs, topics, found>>

\* init lines 60-77, after the awaits: the synchronous merge.
MgrInitMerge ==
  /\ mpc = "awaiting"
  /\ mpc' = "idle"
  /\ initialized' = TRUE
  /\ LET r == InitMerge(commandIDs, topics, provided, NoDeclared)
     IN  /\ commandIDs' = r.commandIDs
         /\ topics' = r.topics
  /\ UNCHANGED <<provided, aliases, found, mInits>>

\* findCommand of a provider: unalias, then its own _findCommand.
SubFindCommand(m, id) ==
  LET id2 == Unalias(aliases, id)
  IN  IF id2 \in provided[m] /\ id2 # EmptyID
        THEN [provider |-> m, command |-> id2]
        ELSE [provider |-> None, command |-> EmptyID]

\* findCommand of the root: unalias, its own _findCommand (undefined), then
\* the submanagers in order; the first match wins.
RECURSIVE FirstMatch(_, _)
FirstMatch(ms, id) ==
  IF ms = <<>> THEN [provider |-> None, command |-> EmptyID]
  ELSE IF SubFindCommand(Head(ms), id).provider # None
    THEN SubFindCommand(Head(ms), id)
  ELSE FirstMatch(Tail(ms), id)

FindCommandIn(id) == FirstMatch(Submanagers, Unalias(aliases, id))

MgrFindCommand(id) ==
  /\ mpc = "idle"
  /\ initialized
  /\ found' = [id |-> id, provider |-> FindCommandIn(id).provider,
               command |-> FindCommandIn(id).command]
  /\ UNCHANGED <<mpc, provided, aliases, initialized, commandIDs, topics,
                 mInits>>


(***************************************************************************)
(* SpecInit: PluginManager.init of the root manager called by two callers  *)
(* that may overlap, with providers that declare topics and a provider     *)
(* whose own init() may reject.                                            *)
(***************************************************************************)
Callers == {"c1", "c2"}
MaxCallerInits == 1

\* What the providers found and declared: a reduced set of inputs.
ProvidedN ==
  {f \in Provided : f["builtin"] \subseteq {<<"apps", "info">>, <<"run">>}}
DeclaredN == [Providers -> SUBSET TopicNames]

InitN ==
  /\ npc = [c \in Callers |-> "idle"]
  /\ nProvided \in ProvidedN
  /\ nDeclared \in DeclaredN
  /\ nBroken \in Providers \cup {None}
  /\ nInitialized = FALSE
  /\ nCommandIDs = <<>>
  /\ nTopics = NoTopics
  /\ nCalls = [c \in Callers |-> 0]

IdleN ==
  /\ npc = [c \in Callers |-> "off"]
  /\ nProvided = [p \in Providers |-> {}]
  /\ nDeclared = NoDeclared
  /\ nBroken = None
  /\ nInitialized = FALSE
  /\ nCommandIDs = <<>>
  /\ nTopics = NoTopics
  /\ nCalls = [c \in Callers |-> 0]

\* init lines 56-59: if (this.initialized) return; then the awaits.
InitCall(c) ==
  /\ npc[c] = "idle"
  /\ nCalls[c] < MaxCallerInits
  /\ nCalls' = [nCalls EXCEPT ![c] = nCalls[c] + 1]
  /\ npc' = [npc EXCEPT ![c] = IF InitGuard(nInitialized) THEN "returned"
                                ELSE "awaiting"]
  /\ UNCHANGED <<nProvided, nDeclared, nBroken, nInitialized, nCommandIDs,
                 nTopics>>

\* init line 59 settles: Promise.all rejects when a submanager's init()
\* rejected, and init() rejects with it, before line 60; otherwise lines
\* 60-77 run on what this.commandIDs and this.topics hold by then.
InitSettle(c) ==
  /\ npc[c] = "awaiting"
  /\ IF nBroken # None
       THEN /\ npc' = [npc EXCEPT ![c] = "rejected"]
            /\ UNCHANGED <<nInitialized, nCommandIDs, nTopics>>
       ELSE /\ npc' = [npc EXCEPT ![c] = "returned"]
            /\ nInitialized' = TRUE
            /\ LET r == InitMerge(nCommandIDs, nTopics, nProvided, nDeclared)
               IN  /\ nCommandIDs' = r.commandIDs
                   /\ nTopics' = r.topics
  /\ UNCHANGED <<nProvided, nDeclared, nBroken, nCalls>>

\* The caller goes on after init() returned or rejected.
InitDone(c) ==
  /\ npc[c] \in {"returned", "rejected"}
  /\ npc' = [npc EXCEPT ![c] = "idle"]
  /\ UNCHANGED <<nProvided, nDeclared, nBroken, nInitialized, nCommandIDs,
                 nTopics, nCalls>>


(***************************************************************************)
(* SpecCLI: CLI.run for one argv: the help test (cmdAskingForHelp) and     *)
(* the two paths it selects between.                                       *)
(***************************************************************************)
Args == {"--help", "-h", "--", "apps"}
Argvs == UNION {[1..n -> Args] : n \in 0..MaxArgs}

\* get cmdAskingForHelp: the loop over config.argv.
RECURSIVE CmdAskingForHelp_NoTerminator(_)
CmdAskingForHelp_NoTerminator(av) ==
  IF av = <<>> THEN FALSE
  ELSE IF Head(av) \in {"--help", "-h"} THEN TRUE
  ELSE CmdAskingForHelp_NoTerminator(Tail(av))

RECURSIVE CmdAskingForHelp(_)
CmdAskingForHelp(av) ==
  IF av = <<>> THEN FALSE
  ELSE IF Head(av) \in {"--help", "-h"} THEN TRUE
  ELSE IF Head(av) = "--" THEN FALSE
  ELSE CmdAskingForHelp(Tail(av))

\* CLI.run line 69: let id = this.config.argv[1]
CliID(av) == IF Len(av) >= 2 THEN av[2] ELSE None

\* CLI.run line 70: id || this.config.defaultCommand || 'help'
DispatchID_IdOnly(id, dflt) == id
DispatchID(id, dflt) ==
  IF id # None THEN id
  ELSE IF dflt # None THEN dflt
  ELSE "help"

\* The exit statuses: cli.exit(0) at the end of run; cli.error through
\* handleErr; NotFound.
ExitOK == 0
ExitError == 1
ExitNotFound == 127

\* config.argv: the binary's name, then the arguments.
InitH ==
  /\ hpc = "start"
  /\ \E av \in Argvs : argv = <<"heroku">> \o av
  /\ defaultCommand \in {None, "apps"}
  /\ helpPath = FALSE
  /\ helpRan = FALSE
  /\ resolved = FALSE
  /\ executed = FALSE
  /\ lookedUp = None
  /\ cmdFound = FALSE
  /\ topicFound = FALSE
  /\ topicHelp = FALSE
  /\ notFound = FALSE
  /\ threw = FALSE
  /\ exitCode = Absent

IdleH ==
  /\ hpc = "off"
  /\ argv = <<>>
  /\ defaultCommand = None
  /\ helpPath = FALSE
  /\ helpRan = FALSE
  /\ resolved = FALSE
  /\ executed = FALSE
  /\ lookedUp = None
  /\ cmdFound = FALSE
  /\ topicFound = FALSE
  /\ topicHelp = FALSE
  /\ notFound = FALSE
  /\ threw = FALSE
  /\ exitCode = Absent

\* CLI.run line 65: if (this.cmdAskingForHelp)
CliBranch ==
  /\ hpc = "start"
  /\ helpPath' = CmdAskingForHelp(argv)
  /\ hpc' = IF CmdAskingForHelp(argv) THEN "help" ELSE "dispatch"
  /\ UNCHANGED <<argv, helpRan, resolved, executed, defaultCommand, lookedUp,
                 cmdFound, topicFound, topicHelp, notFound, threw, exitCode>>

\* CLI.run line 67: this.cmd = await this.Help.run(this.config)
CliHelp ==
  /\ hpc = "help"
  /\ helpRan' = TRUE
  /\ hpc' = "flush"
  /\ UNCHANGED <<argv, helpPath, resolved, executed, defaultCommand, lookedUp,
                 cmdFound, topicFound, topicHelp, notFound, threw, exitCode>>

\* CLI.run lines 69-73: dispatcher.findCommand(id || defaultCommand || 'help');
\* without a command the else branch goes on to findTopic.
CliFindCommand(exists) ==
  /\ hpc = "dispatch"
  /\ resolved' = TRUE
  /\ lookedUp' = DispatchID(CliID(argv), defaultCommand)
  /\ cmdFound' = exists
  /\ hpc' = IF exists THEN "run" ELSE "topic"
  /\ UNCHANGED <<argv, helpPath, helpRan, executed, defaultCommand,
                 topicFound, topicHelp, notFound, threw, exitCode>>

\* CLI.run lines 75-101: the command found is run; a command that throws
\* rejects run(), and handleErr (cli.error) ends the process with status 1.
CliRunCommand(ok) ==
  /\ hpc = "run"
  /\ executed' = TRUE
  /\ threw' = ~ok
  /\ hpc' = IF ok THEN "flush" ELSE "exit"
  /\ exitCode' = IF ok THEN exitCode ELSE ExitError
  /\ UNCHANGED <<argv, helpPath, helpRan, resolved, defaultCommand, lookedUp,
                 cmdFound, topicFound, topicHelp, notFound>>

\* CLI.run lines 102-109: let topic = await dispatcher.findTopic(id); a topic
\* gets Help.run, anything else `return new NotFound(...).run()`, which ends
\* the process with status 127 and skips the flush and cli.exit(0).
CliFindTopic(match) ==
  /\ hpc = "topic"
  /\ topicFound' = match
  /\ topicHelp' = match
  /\ notFound' = ~match
  /\ hpc' = IF match THEN "flush" ELSE "exit"
  /\ exitCode' = IF match THEN exitCode ELSE ExitNotFound
  /\ UNCHANGED <<argv, helpPath, helpRan, resolved, executed, defaultCommand,
                 lookedUp, cmdFound, threw>>

\* CLI.run lines 113-117: flush, cli.exit(0)
CliExit ==
  /\ hpc = "flush"
  /\ hpc' = "exit"
  /\ exitCode' = ExitOK
  /\ UNCHANGED <<argv, helpPath, helpRan, resolved, executed, defaultCommand,
                 lookedUp, cmdFound, topicFound, topicHelp, notFound, threw>>


(***************************************************************************)
(* SpecGo: the legacy Go updater (update.go): Update, GetUpdateManifest,   *)
(* DownloadCLI under the golock file, loadNewCLI                           *)
(***************************************************************************)
GoProcs == {"g1", "g2"}
MaxGoRuns == 2
MaxGoFetches == 2

InitG ==
  /\ gpc = [p \in GoProcs |-> "idle"]
  /\ goLock = None
  /\ updateManifestRetrying = [p \in GoProcs |-> FALSE]
  /\ gAttempts = [p \in GoProcs |-> 0]
  /\ gRetries = [p \in GoProcs |-> 0]
  /\ gFetches = [p \in GoProcs |-> 0]
  /\ gErr = [p \in GoProcs |-> None]
  /\ gRuns = [p \in GoProcs |-> 0]

IdleG ==
  /\ gpc = [p \in GoProcs |-> "off"]
  /\ goLock = None
  /\ updateManifestRetrying = [p \in GoProcs |-> FALSE]
  /\ gAttempts = [p \in GoProcs |-> 0]
  /\ gRetries = [p \in GoProcs |-> 0]
  /\ gFetches = [p \in GoProcs |-> 0]
  /\ gErr = [p \in GoProcs |-> None]
  /\ gRuns = [p \in GoProcs |-> 0]

GGoto(p, l) == gpc' = [gpc EXCEPT ![p] = l]

\* A process is started and reaches Update(channel), updateCLI with
\* Autoupdate = "yes": manifest := GetUpdateManifest(channel)
GoUpdate(p) ==
  /\ gpc[p] = "idle"
  /\ gRuns[p] < MaxGoRuns
  /\ gRuns' = [gRuns EXCEPT ![p] = gRuns[p] + 1]
  /\ gFetches' = [gFetches EXCEPT ![p] = 1]
  /\ gAttempts' = [gAttempts EXCEPT ![p] = 0]
  /\ GGoto(p, "manifest")
  /\ UNCHANGED <<goLock, updateManifestRetrying, gRetries, gErr>>

\* GetUpdateManifest: one request; on an error with the flag unset, set it
\* and call GetUpdateManifest again; otherwise must(err).
GoGetUpdateManifest(p, ok) ==
  /\ gpc[p] = "manifest"
  /\ gAttempts' = [gAttempts EXCEPT ![p] = gAttempts[p] + 1]
  /\ IF ~ok /\ ~updateManifestRetrying[p]
       THEN /\ updateManifestRetrying' =
                 [updateManifestRetrying EXCEPT ![p] = TRUE]
            /\ gRetries' = [gRetries EXCEPT ![p] = gRetries[p] + 1]
            /\ UNCHANGED <<gpc, gErr>>
       ELSE /\ GGoto(p, IF ok THEN "compare" ELSE "fatal")
            /\ gErr' = [gErr EXCEPT ![p] = IF ok THEN None ELSE "transport"]
            /\ UNCHANGED <<updateManifestRetrying, gRetries>>
  /\ UNCHANGED <<goLock, gFetches, gRuns>>

\* updateCLI: if binExists && manifest.Version == Version && ... { return }
GoCompare(p, same) ==
  /\ gpc[p] = "compare"
  /\ GGoto(p, IF same THEN "done" ELSE "probe")
  /\ UNCHANGED <<goLock, updateManifestRetrying, gAttempts, gRetries,
                 gFetches, gErr, gRuns>>

\* DownloadCLI: locked, err := golock.IsLocked(UpdateLockPath);
\* if locked { must(merry.Errorf("Update in progress")) }
GoIsLocked(p) ==
  /\ gpc[p] = "probe"
  /\ IF goLock # None
       THEN /\ gErr' = [gErr EXCEPT ![p] = "Update in progress"]
            /\ GGoto(p, "fatal")
       ELSE /\ GGoto(p, "lock")
            /\ UNCHANGED gErr
  /\ UNCHANGED <<goLock, updateManifestRetrying, gAttempts, gRetries,
                 gFetches, gRuns>>

\* LogIfError(golock.Lock(UpdateLockPath)): taken once the file is free.
GoLock(p) ==
  /\ gpc[p] = "lock"
  /\ goLock = None
  /\ goLock' = p
  /\ GGoto(p, "download")
  /\ UNCHANGED <<updateManifestRetrying, gAttempts, gRetries, gFetches, gErr,
                 gRuns>>

\* downloadXZ, extractTar, the SHA test and the renames, each under must().
GoDownload(p, ok) ==
  /\ gpc[p] = "download"
  /\ GGoto(p, IF ok THEN "unlock" ELSE "fatal")
  /\ gErr' = [gErr EXCEPT ![p] = IF ok THEN None ELSE "download"]
  /\ UNCHANGED <<goLock, updateManifestRetrying, gAttempts, gRetries,
                 gFetches, gRuns>>

\* defer unlock(): golock.Unlock(UpdateLockPath) when DownloadCLI returns.
GoUnlock(p) ==
  /\ gpc[p] = "unlock"
  /\ goLock' = None
  /\ GGoto(p, "load")
  /\ UNCHANGED <<updateManifestRetrying, gAttempts, gRetries, gFetches, gErr,
                 gRuns>>

\* loadNewCLI: with neither the expected binary nor npm in place it calls
\* Update(Channel) again, in the same process; otherwise it execs or returns.
GoLoadNewCLI(p, again) ==
  /\ gpc[p] = "load"
  /\ again => gFetches[p] < MaxGoFetches
  /\ IF again
       THEN /\ gFetches' = [gFetches EXCEPT ![p] = gFetches[p] + 1]
            /\ gAttempts' = [gAttempts EXCEPT ![p] = 0]
            /\ GGoto(p, "manifest")
       ELSE /\ GGoto(p, "done")
            /\ UNCHANGED <<gFetches, gAttempts>>
  /\ UNCHANGED <<goLock, updateManifestRetrying, gRetries, gErr, gRuns>>

\* The process ends (must() on an error, or the end of main): its lock file
\* no longer names a live process and its globals are gone.
GoExit(p) ==
  /\ gpc[p] \in {"done", "fatal"}
  /\ goLock' = IF goLock = p THEN None ELSE goLock
  /\ updateManifestRetrying' = [updateManifestRetrying EXCEPT ![p] = FALSE]
  /\ gAttempts' = [gAttempts EXCEPT ![p] = 0]
  /\ gRetries' = [gRetries EXCEPT ![p] = 0]
  /\ gFetches' = [gFetches EXCEPT ![p] = 0]
  /\ gErr' = [gErr EXCEPT ![p] = None]
  /\ GGoto(p, "idle")
  /\ UNCHANGED gRuns


(***************************************************************************)
(* SpecFetch: Updater.fetchManifest and Updater.fetchVersion (updater.ts), *)
(* one call after another, the version cache file and the remote version.  *)
(***************************************************************************)
MaxFetchCalls == 3

\* IVersion objects: message is optional (None: the property is undefined).
VersionObjs ==
  [version : {"1.2.3", "1.3.0"}, message : {None, "please update"}]

\* JSON.stringify of an IVersion: the pairs in property order; a property
\* that is undefined is left out.
StringifyJSON(v) ==
  <<<<"version", v.version>>>>
    \o (IF v.message = None THEN <<>> ELSE <<<<"message", v.message>>>>)

\* JSON.parse of such a text: a property that is not in the text is
\* undefined in the object.
ParseJSON(text) ==
  [version |-> text[1][2],
   message |-> IF Len(text) >= 2 THEN text[2][2] ELSE None]

\* The states of the cache file: absent, unreadable for the user, holding
\* text that is no JSON, or holding the JSON text of a version.
NoText == <<>>
FileMissing == [kind |-> "missing", text |-> NoText]
FileDenied == [kind |-> "denied", text |-> NoText]
FileCorrupt == [kind |-> "corrupt", text |-> NoText]
FileOf(v) == [kind |-> "json", text |-> StringifyJSON(v)]
VersionFiles ==
  {FileMissing, FileDenied, FileCorrupt} \cup {FileOf(v) : v \in VersionObjs}

NoVersion == [version |-> None, message |-> None]

\* deps.file.readJSON(file): the object, or the error thrown: ENOENT for a
\* missing file, EACCES for a denied one, a SyntaxError (which has no code)
\* for text that does not parse.
ReadJSON(file) ==
  CASE file.kind = "json" ->
         [ok |-> TRUE, value |-> ParseJSON(file.text), code |-> None]
    [] file.kind = "missing" ->
         [ok |-> FALSE, value |-> NoVersion, code |-> "ENOENT"]
    [] file.kind = "denied" ->
         [ok |-> FALSE, value |-> NoVersion, code |-> "EACCES"]
    [] file.kind = "corrupt" ->
         [ok |-> FALSE, value |-> NoVersion, code |-> "SyntaxError"]

\* fetchVersion line 92: if (err.code !== 'ENOENT') throw err
Rethrown(code) == code # "ENOENT"

InitF ==
  /\ fpc = "idle"
  /\ fOp = None
  /\ fDownload = FALSE
  /\ versionFile \in VersionFiles
  /\ fileAtCall = versionFile
  /\ remoteVersion \in {v \in VersionObjs : v.version = "1.3.0"}
  /\ fRequests = 0
  /\ fResult = NoVersion
  /\ fErr = None
  /\ fWriteFailed = FALSE
  /\ fCalls = 0

IdleF ==
  /\ fpc = "off"
  /\ fOp = None
  /\ fDownload = FALSE
  /\ versionFile = FileMissing
  /\ fileAtCall = FileMissing
  /\ remoteVersion = NoVersion
  /\ fRequests = 0
  /\ fResult = NoVersion
  /\ fErr = None
  /\ fWriteFailed = FALSE
  /\ fCalls = 0

\* fetchVersion(download) or fetchManifest(channel) is called.
FetchCall(op, download) ==
  /\ fpc = "idle"
  /\ fCalls < MaxFetchCalls
  /\ fCalls' = fCalls + 1
  /\ fOp' = op
  /\ fDownload' = (op = "version" /\ download)
  /\ fileAtCall' = versionFile
  /\ fRequests' = 0
  /\ fResult' = NoVersion
  /\ fErr' = None
  /\ fWriteFailed' = FALSE
  /\ fpc' = IF op = "manifest" THEN "get"
            ELSE IF download THEN "remote" ELSE "read"
  /\ UNCHANGED <<versionFile, remoteVersion>>

\* fetchVersion lines 89-93: if (!download) v = await readJSON(versionFile);
\* an error other than ENOENT is thrown again.  Line 94: if (!v)
FetchVersionRead ==
  /\ fpc = "read"
  /\ LET r == ReadJSON(versionFile) IN
       IF r.ok
         THEN /\ fResult' = r.value
              /\ fpc' = "returned"
              /\ UNCHANGED fErr
         ELSE IF Rethrown(r.code)
           THEN /\ fErr' = r.code
                /\ fpc' = "threw"
                /\ UNCHANGED fResult
           ELSE /\ fpc' = "remote"
                /\ UNCHANGED <<fResult, fErr>>
  /\ UNCHANGED <<fOp, fDownload, versionFile, fileAtCall, remoteVersion,
                 fRequests, fWriteFailed, fCalls>>

\* fetchVersion lines 96-97: let { body } = await this.http.get(...); v = body
FetchVersionRemote(ok) ==
  /\ fpc = "remote"
  /\ fRequests' = fRequests + 1
  /\ IF ok
       THEN /\ fResult' = remoteVersion
            /\ fpc' = "write"
            /\ UNCHANGED fErr
       ELSE /\ fErr' = "http"
            /\ fpc' = "threw"
            /\ UNCHANGED fResult
  /\ UNCHANGED <<fOp, fDownload, versionFile, fileAtCall, remoteVersion,
                 fWriteFailed, fCalls>>

\* fetchVersion lines 98-100: await this._catch(() => outputJSON(versionFile,
\* v)); return v.  _catch swallows the error of a failed write.
FetchVersionWrite(ok) ==
  /\ fpc = "write"
  /\ versionFile' = IF ok THEN FileOf(fResult) ELSE versionFile
  /\ fWriteFailed' = ~ok
  /\ fpc' = "returned"
  /\ UNCHANGED <<fOp, fDownload, fileAtCall, remoteVersion, fRequests,
                 fResult, fErr, fCalls>>

\* fetchManifest: one http.get; its error is thrown again, a 403 as
\* "Invalid channel".
FetchManifestGet(outcome) ==
  /\ fpc = "get"
  /\ fRequests' = fRequests + 1
  /\ fpc' = IF outcome = "ok" THEN "returned" ELSE "threw"
  /\ fErr' = CASE outcome = "ok" -> None
               [] outcome = "transport" -> "transport"
               [] outcome = "403" -> "Invalid channel"
  /\ UNCHANGED <<fOp, fDownload, versionFile, fileAtCall, remoteVersion,
                 fResult, fWriteFailed, fCalls>>

\* The call has returned or thrown; the next one may start.
FetchEnd ==
  /\ fpc \in {"returned", "threw"}
  /\ fpc' = "idle"
  /\ UNCHANGED <<fOp, fDownload, versionFile, fileAtCall, remoteVersion,
                 fRequests, fResult, fErr, fWriteFailed, fCalls>>


(***************************************************************************)
(* SpecInstall: UserPlugins.install (user.js) run by two processes at the  *)
(* same time.  addPackageToPJSON and removePackageFromPJSON read           *)
(* package.json and write it back; between the read and the write of one   *)
(* process another process may act.                                        *)
(***************************************************************************)
Installers == {"i1", "i2"}
MaxInstalls == 1

InitJ ==
  /\ jpc = [p \in Installers |-> "idle"]
  /\ jLock = None
  /\ jDeps \in {d \in PJSONs : \A n \in PluginNames : d[n] \in {None, "latest"}}
  /\ jRead = [p \in Installers |-> [n \in PluginNames |-> None]]
  /\ jName = [p \in Installers |-> None]
  /\ jInstalls = [p \in Installers |-> 0]

IdleJ ==
  /\ jpc = [p \in Installers |-> "off"]
  /\ jLock = None
  /\ jDeps = [n \in PluginNames |-> None]
  /\ jRead = [p \in Installers |-> [n \in PluginNames |-> None]]
  /\ jName = [p \in Installers |-> None]
  /\ jInstalls = [p \in Installers |-> 0]

JGoto(p, l) == jpc' = [jpc EXCEPT ![p] = l]

\* A process calls install(name).
JCall(p, name) ==
  /\ jpc[p] = "idle"
  /\ jInstalls[p] < MaxInstalls
  /\ jInstalls' = [jInstalls EXCEPT ![p] = jInstalls[p] + 1]
  /\ jName' = [jName EXCEPT ![p] = name]
  /\ JGoto(p, "lock")
  /\ UNCHANGED <<jLock, jDeps, jRead>>

\* install lines 62-63: let unlock = await lock.write(this.lockfile, ...);
\* await this.setupUserPlugins()
JLock(p) ==
  /\ jpc[p] = "lock"
  /\ jLock = None
  /\ jLock' = p
  /\ JGoto(p, "addread")
  /\ UNCHANGED <<jDeps, jRead, jName, jInstalls>>

\* addPackageToPJSON line 95: let pjson = this.userPluginsPJSON
JAddRead(p) ==
  /\ jpc[p] = "addread"
  /\ jRead' = [jRead EXCEPT ![p] = jDeps]
  /\ JGoto(p, "addwrite")
  /\ UNCHANGED <<jLock, jDeps, jName, jInstalls>>

\* addPackageToPJSON lines 96-98: pjson.dependencies[name] = version;
\* saveUserPluginsPJSON(pjson)
JAddWrite(p) ==
  /\ jpc[p] = "addwrite"
  /\ jDeps' = AddPackageToPJSON(jRead[p], jName[p], "latest")
  /\ JGoto(p, "yarn")
  /\ UNCHANGED <<jLock, jRead, jName, jInstalls>>

\* install lines 65-81: yarn.exec(), then the probe.
\*   "ok"     await unlock(); return path
\*   "yarn"   yarn.exec rejects: install rejects, the lock still held
\*   "probe"  the probe fails: catch { await unlock(); ... }
JYarnProbe(p, outcome) ==
  /\ jpc[p] = "yarn"
  /\ CASE outcome = "ok" -> jLock' = None /\ JGoto(p, "done")
       [] outcome = "yarn" -> UNCHANGED jLock /\ JGoto(p, "threw")
       [] outcome = "probe" -> jLock' = None /\ JGoto(p, "revertread")
  /\ UNCHANGED <<jDeps, jRead, jName, jInstalls>>

\* install line 76, removePackageFromPJSON line 102:
\* let pjson = this.userPluginsPJSON
JRevertRead(p) ==
  /\ jpc[p] = "revertread"
  /\ jRead' = [jRead EXCEPT ![p] = jDeps]
  /\ JGoto(p, "revertwrite")
  /\ UNCHANGED <<jLock, jDeps, jName, jInstalls>>

\* removePackageFromPJSON lines 103-105: delete pjson.dependencies[name];
\* saveUserPluginsPJSON(pjson); then install line 77: out.exit(1)
JRevertWrite(p) ==
  /\ jpc[p] = "revertwrite"
  /\ jDeps' = RemovePackageFromPJSON(jRead[p], jName[p])
  /\ JGoto(p, "exited")
  /\ UNCHANGED <<jLock, jRead, jName, jInstalls>>

\* The process ends; a lock it still holds becomes stale and can be taken.
JEnd(p) ==
  /\ jpc[p] \in {"done", "threw", "exited"}
  /\ jLock' = IF jLock = p THEN None ELSE jLock
  /\ JGoto(p, "idle")
  /\ UNCHANGED <<jDeps, jRead, jName, jInstalls>>


(***************************************************************************)
(* The specifications                                                      *)
(***************************************************************************)
RestU == UNCHANGED <<avars, xvars, dvars, cvars, ivars, mvars, hvars, gvars, kvars,
                     fvars, nvars, jvars>>
RestA == UNCHANGED <<uvars, xvars, dvars, cvars, ivars, mvars, hvars, gvars, kvars,
                     fvars, nvars, jvars>>
RestX == UNCHANGED <<uvars, avars, dvars, cvars, ivars, mvars, hvars, gvars, kvars,
                     fvars, nvars, jvars>>
RestD == UNCHANGED <<uvars, avars, xvars, cvars, ivars, mvars, hvars, gvars, kvars,
                     fvars, nvars, jvars>>
RestC == UNCHANGED <<uvars, avars, xvars, dvars, ivars, mvars, hvars, gvars, kvars,
                     fvars, nvars, jvars>>
RestI == UNCHANGED <<uvars, avars, xvars, dvars, cvars, mvars, hvars, gvars, kvars,
                     fvars, nvars, jvars>>
RestM == UNCHANGED <<uvars, avars, xvars, dvars, cvars, ivars, hvars, gvars, kvars,
                     fvars, nvars, jvars>>
RestH == UNCHANGED <<uvars, avars, xvars, dvars, cvars, ivars, mvars, gvars, kvars,
                     fvars, nvars, jvars>>
RestG == UNCHANGED <<uvars, avars, xvars, dvars, cvars, ivars, mvars, hvars, kvars,
                     fvars, nvars, jvars>>
RestIK == UNCHANGED <<uvars, avars, xvars, dvars, cvars, mvars, hvars, gvars,
                    fvars, nvars, jvars>>
RestK == UNCHANGED <<uvars, avars, xvars, dvars, cvars, ivars, mvars, hvars,
                   gvars, fvars, nvars, jvars>>
RestF == UNCHANGED <<uvars, avars, xvars, dvars, cvars, ivars, mvars, hvars,
                   gvars, kvars, nvars, jvars>>
RestN == UNCHANGED <<uvars, avars, xvars, dvars, cvars, ivars, mvars, hvars,
                   gvars, kvars, fvars, jvars>>
RestJ == UNCHANGED <<uvars, avars, xvars, dvars, cvars, ivars, mvars, hvars,
                   gvars, kvars, fvars, nvars>>

Init == InitU /\ IdleA /\ IdleX /\ IdleD /\ IdleC /\ IdleI /\ IdleM /\ IdleH
  /\ IdleG /\ IdleK /\ IdleF /\ IdleN /\ IdleJ
Next ==
  \/ \E p \in Procs, m \in Versions : StartUpdate(p, m) /\ RestU
  \/ \E p \in Procs : UpdateAcquire(p) /\ RestU
  \/ \E p \in Procs : UpdateStream(p) /\ RestU
  \/ \E p \in Procs : UpdateClear(p) /\ RestU
  \/ \E p \in Procs : UpdateExtract(p) /\ RestU
  \/ \E p \in Procs : UpdateRename(p) /\ RestU
  \/ \E p \in Procs : UpdateCreateBin(p) /\ RestU
  \/ \E p \in Procs : UpdateDowngrade(p) /\ RestU
  \/ \E p \in Procs : StartCommand(p) /\ RestU
  \/ \E p \in Procs : FindCommand(p) /\ RestU
  \/ \E p \in Procs : Unread(p) /\ RestU
  \/ \E p \in Procs : RunCommand(p) /\ RestU
  \/ \E p \in Procs : FinishCommand(p) /\ RestU
  \/ \E p \in Procs : Exit(p) /\ RestU
Spec == Init /\ [][Next]_vars

InitAuto == IdleU /\ InitA /\ IdleX /\ IdleD /\ IdleC /\ IdleI /\ IdleM /\ IdleH
  /\ IdleG /\ IdleK /\ IdleF /\ IdleN /\ IdleJ
NextAuto ==
  \/ \E p \in Procs, f \in BOOLEAN : AutoStart(p, f) /\ RestA
  \/ \E p \in Procs : AutoCheck(p) /\ RestA
  \/ \E p \in Procs : AutoTouch(p) /\ RestA
  \/ \E p \in Procs : AutoBinPath(p) /\ RestA
  \/ \E p \in Procs : AutoOpenLog(p) /\ RestA
  \/ \E p \in Procs : AutoSpawn(p) /\ RestA
  \/ \E p \in Procs : AutoDispatch(p) /\ RestA
  \/ AutoTick /\ RestA
SpecAuto == InitAuto /\ [][NextAuto]_vars

InitExtract == IdleU /\ IdleA /\ InitX /\ IdleD /\ IdleC /\ IdleI /\ IdleM /\ IdleH
  /\ IdleG /\ IdleK /\ IdleF /\ IdleN /\ IdleJ
NextExtract ==
  \/ StreamData /\ RestX
  \/ StreamEnd /\ RestX
  \/ StreamError /\ RestX
  \/ GunzipError /\ RestX
  \/ TarError /\ RestX
  \/ TarFinish /\ RestX
  \/ \E k \in ErrKinds : FailRemove(k) /\ RestX
  \/ \E k \in ErrKinds : FailReject(k) /\ RestX
SpecExtract == InitExtract /\ [][NextExtract]_vars

InitDebounce == IdleU /\ IdleA /\ IdleX /\ InitD /\ IdleC /\ IdleI /\ IdleM /\ IdleH
  /\ IdleG /\ IdleK /\ IdleF /\ IdleN /\ IdleJ
NextDebounce ==
  \/ UpdateRunStart /\ RestD
  \/ Debounce /\ RestD
  \/ DebounceWake /\ RestD
  \/ UpdateRunFetch /\ RestD
  \/ TouchMarker /\ RestD
  \/ DebTick /\ RestD
SpecDebounce == InitDebounce /\ [][NextDebounce]_vars

InitCmd == IdleU /\ IdleA /\ IdleX /\ IdleD /\ InitC /\ IdleI /\ IdleM /\ IdleH
  /\ IdleG /\ IdleK /\ IdleF /\ IdleN /\ IdleJ
NextCmd ==
  \/ \E auto \in BOOLEAN, arg \in Channels \cup {None} :
       CmdStart(auto, arg) /\ RestC
  \/ \E mv \in CmdVersions, pr \in Priorities, ch \in Chances,
        ok \in BOOLEAN : CmdFetch(mv, pr, ch, ok) /\ RestC
  \/ \E o \in {"ok", "nostream", "fail"} : CmdUpdate(o) /\ RestC
  \/ \E ok \in BOOLEAN : CmdPost(ok) /\ RestC
  \/ CmdTidy /\ RestC
  \/ CmdDone /\ RestC
  \/ CmdTick /\ RestC
SpecCmd == InitCmd /\ [][NextCmd]_vars

InitPlugins == IdleU /\ IdleA /\ IdleX /\ IdleD /\ IdleC /\ InitI /\ IdleM /\ IdleH
  /\ IdleG /\ InitK /\ IdleF /\ IdleN /\ IdleJ
NextPlugins ==
  \/ \E op \in {"install", "remove"}, name \in PluginNames, tag \in Tags :
       PluginsCall(op, name, tag) /\ RestI
  \/ PluginsLock /\ RestI
  \/ \E ok \in BOOLEAN : InstallSetup(ok) /\ RestI
  \/ \E ok \in BOOLEAN : InstallYarn(ok) /\ RestI
  \/ \E probe \in {"ok", "noload", "nocommands"} : InstallProbe(probe) /\ RestI
  \/ InstallRevert /\ RestI
  \/ \E ok \in BOOLEAN : RemoveYarn(ok) /\ RestI
  \/ PluginsEnd /\ RestI
  \/ PluginsIndex /\ RestK
  \/ \E name \in PluginNames, ok \in BOOLEAN :
       PluginsUninstall(name, ok) /\ RestIK
  \/ \E name \in PluginNames : PluginsLink(name) /\ RestIK
SpecPlugins == InitPlugins /\ [][NextPlugins]_vars

InitManager == IdleU /\ IdleA /\ IdleX /\ IdleD /\ IdleC /\ IdleI /\ InitM /\ IdleH
  /\ IdleG /\ IdleK /\ IdleF /\ IdleN /\ IdleJ
NextManager ==
  \/ MgrInitCall /\ RestM
  \/ MgrInitMerge /\ RestM
  \/ \E id \in AliasIDs : MgrFindCommand(id) /\ RestM
SpecManager == InitManager /\ [][NextManager]_vars

InitCLI ==
  IdleU /\ IdleA /\ IdleX /\ IdleD /\ IdleC /\ IdleI /\ IdleM /\ InitH
  /\ IdleG /\ IdleK /\ IdleF /\ IdleN /\ IdleJ
NextCLI ==
  \/ CliBranch /\ RestH
  \/ CliHelp /\ RestH
  \/ \E exists \in BOOLEAN : CliFindCommand(exists) /\ RestH
  \/ \E ok \in BOOLEAN : CliRunCommand(ok) /\ RestH
  \/ \E match \in BOOLEAN : CliFindTopic(match) /\ RestH
  \/ CliExit /\ RestH
SpecCLI == InitCLI /\ [][NextCLI]_vars

InitGo ==
  IdleU /\ IdleA /\ IdleX /\ IdleD /\ IdleC /\ IdleI /\ IdleM /\ IdleH
  /\ InitG /\ IdleK /\ IdleF /\ IdleN /\ IdleJ
NextGo ==
  \/ \E p \in GoProcs : GoUpdate(p) /\ RestG
  \/ \E p \in GoProcs, ok \in BOOLEAN : GoGetUpdateManifest(p, ok) /\ RestG
  \/ \E p \in GoProcs, same \in BOOLEAN : GoCompare(p, same) /\ RestG
  \/ \E p \in GoProcs : GoIsLocked(p) /\ RestG
  \/ \E p \in GoProcs : GoLock(p) /\ RestG
  \/ \E p \in GoProcs, ok \in BOOLEAN : GoDownload(p, ok) /\ RestG
  \/ \E p \in GoProcs : GoUnlock(p) /\ RestG
  \/ \E p \in GoProcs, again \in BOOLEAN : GoLoadNewCLI(p, again) /\ RestG
  \/ \E p \in GoProcs : GoExit(p) /\ RestG
SpecGo == InitGo /\ [][NextGo]_vars

InitFetch ==
  IdleU /\ IdleA /\ IdleX /\ IdleD /\ IdleC /\ IdleI /\ IdleM /\ IdleH
  /\ IdleG /\ IdleK /\ InitF /\ IdleN /\ IdleJ
NextFetch ==
  \/ \E op \in {"version", "manifest"}, download \in BOOLEAN :
       FetchCall(op, download) /\ RestF
  \/ FetchVersionRead /\ RestF
  \/ \E ok \in BOOLEAN : FetchVersionRemote(ok) /\ RestF
  \/ \E ok \in BOOLEAN : FetchVersionWrite(ok) /\ RestF
  \/ \E outcome \in {"ok", "transport", "403"} :
       FetchManifestGet(outcome) /\ RestF
  \/ FetchEnd /\ RestF
SpecFetch == InitFetch /\ [][NextFetch]_vars

InitInit ==
  IdleU /\ IdleA /\ IdleX /\ IdleD /\ IdleC /\ IdleI /\ IdleM /\ IdleH
  /\ IdleG /\ IdleK /\ IdleF /\ InitN /\ IdleJ
NextInit ==
  \/ \E c \in Callers : InitCall(c) /\ RestN
  \/ \E c \in Callers : InitSettle(c) /\ RestN
  \/ \E c \in Callers : InitDone(c) /\ RestN
SpecInit == InitInit /\ [][NextInit]_vars

InitInstall ==
  IdleU /\ IdleA /\ IdleX /\ IdleD /\ IdleC /\ IdleI /\ IdleM /\ IdleH
  /\ IdleG /\ IdleK /\ IdleF /\ IdleN /\ InitJ
NextInstall ==
  \/ \E p \in Installers, name \in PluginNames : JCall(p, name) /\ RestJ
  \/ \E p \in Installers : JLock(p) /\ RestJ
  \/ \E p \in Installers : JAddRead(p) /\ RestJ
  \/ \E p \in Installers : JAddWrite(p) /\ RestJ
  \/ \E p \in Installers, outcome \in {"ok", "yarn", "probe"} :
       JYarnProbe(p, outcome) /\ RestJ
  \/ \E p \in Installers : JRevertRead(p) /\ RestJ
  \/ \E p \in Installers : JRevertWrite(p) /\ RestJ
  \/ \E p \in Installers : JEnd(p) /\ RestJ
SpecInstall == InitInstall /\ [][NextInstall]_vars

(***************************************************************************)
(* Claims                                                                  *)
(***************************************************************************)

\* The steps of update() between lock.write() and downgrade().
CriticalPCs == {"locked", "streaming", "cleared", "extracted", "renamed",
                "linked"}

\* C1: at most one process at a time is between acquiring the writer lock
\* and invoking downgrade, so the remove, download, extract, rename and
\* clientBin steps of two updates never overlap.
C1_UpdateMutualExclusion ==
  \A p, q \in Procs :
    (p # q) => ~(pc[p] \in CriticalPCs /\ pc[q] \in CriticalPCs)

C1_Witness ==
  \E p, q \in Procs :
    /\ p # q
    /\ pc[p] \in {"cleared", "extracted", "renamed"}
    /\ pc[q] = "acquire"

\* C2: whenever an invocation is executing a dispatched command, it holds a
\* reader lock on the lockfile the updater write-locks, and no other process
\* is inside the swap steps of an update.
C2_RunningHoldsReaderLock ==
  \A p \in Procs :
    pc[p] = "running" =>
      /\ p \in readers[UpdaterLockfile]
      /\ \A q \in Procs : pc[q] \notin CriticalPCs

\* C3: when update(manifest) returns, <clientRoot>/<manifest.version>/bin/
\* <binName> exists, clientBin resolves to exactly that file, and the tree
\* that was current before the update is still on disk.
C3_UpdatePostcondition ==
  [][\A p \in Procs :
       (pc[p] = "linked" /\ pc'[p] = "updated") =>
         /\ manifestVersion[p] \in trees'
         /\ ResolvesTo(manifestVersion[p])'
         /\ (prevVersion[p] # None => prevVersion[p] \in trees')]_vars

\* C4: whenever extract has rejected, the extracted tree <clientRoot>/<base>
\* has been removed.
C4_TargetRemovedOnFailure ==
  xResult = "rejected" => "base" \notin xRoot

\* C5: extract has resolved exactly when the stream has ended with a digest
\* equal to the expected sha and the tar extractor has finished, whichever
\* of the two events came first.
C5_ExtractSuccessIff ==
  (xResult = "resolved") <=>
    (xStream = "ended" /\ hasher = xSha /\ extracted)

C5_Witness ==
  /\ xResult = "resolved"
  /\ Len(xArchive) > 0
  /\ xPos = Len(xArchive)

\* C6 (as claimed): of the concurrent non-forced autoupdate() calls, at most
\* one spawns `update --autoupdate`.
C6_AtMostOneSpawn ==
  Cardinality({p \in Procs : ~force[p] /\ spawned[p]}) <= 1

\* C6 (amended): a non-forced autoupdate() whose autoupdateNeeded check reads
\* a marker mtime no older than 5 hours returns without touching or spawning.
C6_FreshMtimeSkipsSpawn ==
  \A p \in Procs :
    (~force[p] /\ chk[p].stat = "ok" /\ chk[p].age <= FiveHours) =>
      /\ apc[p] \in {"returned", "dispatch"}
      /\ ~binResolved[p]
      /\ ~spawnTried[p]
      /\ ~spawned[p]

C6_Witness ==
  \E p, q \in Procs :
    /\ p # q
    /\ ~force[p] /\ spawned[p]
    /\ aufile > AutoT0
    /\ ~force[q] /\ chk[q].stat = "ok" /\ chk[q].age <= MaxTicks
    /\ apc[q] = "returned"

\* C7: once autoupdate() has resolved binPath or tried to spawn, the marker
\* exists with an mtime no earlier than the start of that call, whatever
\* happens afterwards (binPath absent, log not opened, spawn failed).
C7_TouchBeforeSpawn ==
  \A p \in Procs :
    (binResolved[p] \/ spawnTried[p]) =>
      (aufile # Absent /\ aufile >= startT[p])

C7_Witness ==
  \E p, q \in Procs :
    /\ p # q
    /\ spawnTried[p] /\ ~spawned[p]
    /\ binResolved[q] /\ ~spawnTried[q] /\ apc[q] = "returned"
    /\ aufile >= startT[p] /\ aufile >= startT[q]

\* C8: autoupdateNeeded yields true exactly when the marker is older than
\* 5 hours, is missing, or cannot be stat'ed; it yields false otherwise and
\* never ends in an error.
C8_AutoupdateNeededRule ==
  \A p \in Procs :
    chk[p].stat # None =>
      needed[p] = IF chk[p].stat = "ok" /\ chk[p].age <= FiveHours
                    THEN "false" ELSE "true"

\* C9: no failure inside autoupdate() ends the invocation: autoupdate()
\* returns and CLI.run goes on to the dispatch.
C9_AutoupdateNeverFatal ==
  \A p \in Procs : apc[p] # "fatal"

\* C10: debounce returns only when mtime + 1 hour is not after now, and does
\* so at the first check where that holds; when the window is still open at
\* entry it has slept at least once, each sleep lasting one minute, before
\* it returns; and with --autoupdate the manifest fetch starts only after
\* debounce has returned.
C10_Debounce ==
  [][/\ (dpc = "debounce" /\ dpc' = "returned") => lastrun + Hour <= dnow
     /\ (dpc = "debounce" /\ dpc' # dpc /\ lastrun # Absent
           /\ lastrun + Hour <= dnow) => dpc' = "returned"
     /\ (dpc # "returned" /\ dpc' = "returned" /\ dEarly' = "yes")
           => dSleeps' >= 1
     /\ (dpc = "sleeping" /\ dpc' # dpc)
           => (dpc' = "debounce" /\ dnow' >= dnow + Minute)
     /\ (dpc' = "fetched" /\ dpc # "fetched" /\ dAuto) => dpc = "returned"
    ]_vars

C10_Witness ==
  /\ dpc = "returned"
  /\ dEarly = "yes"
  /\ dSleeps >= 1
  /\ dTouches = 1

\* The version and channel test of Update.run, for the manifest just fetched.
SameRelease == cVersion = cManifest.version /\ cManifest.channel = cChannel

\* C11: when the fetched manifest has the current version on the current
\* channel the update command downloads nothing and leaves every release
\* tree and clientBin as they were; in every other case it goes on to
\* Updater.update exactly when shouldUpdate is true.
C11_NoopLeavesClientUnchanged ==
  [][/\ (cDecision = "noop") =>
          (files' = files /\ cLink' = cLink /\ cDownloads' = cDownloads)
     /\ (cpc = "start" /\ cDecision' \in {"noop", "update", "skip"}) =>
          /\ (cDecision' = "noop") <=> SameRelease'
          /\ (cpc' = "update") <=>
               (~SameRelease' /\
                ~(cAutoupdate /\ cManifest'.priority # Absent
                               /\ cChance' < cManifest'.priority))]_vars

\* C12: shouldUpdate skips exactly when the run is an autoupdate, the
\* manifest has a priority and the draw is below it; a manual update goes
\* on for every priority and every draw.
C12_ShouldUpdateSkipsOnlyAutoupdate ==
  (cDecision \in {"skip", "update"}) =>
    /\ (cDecision = "skip") <=>
         (cAutoupdate /\ cManifest.priority # Absent
                      /\ cChance < cManifest.priority)
    /\ ~cAutoupdate => cDecision = "update"

C12_Witness ==
  /\ cDecision = "skip" /\ cpc = "tidied"
  /\ cManifest.priority = 50 /\ cChance = 49

\* C13: tidy never removes the entries bin, client and the current version;
\* every other entry is removed exactly when its mtime is more than 24 hours
\* old.
C13_TidyRetention ==
  [][(cpc = "tidy" /\ cpc' = "tidied" /\ cRootExists) =>
       \A n \in Names :
         (files[n] # Absent) =>
           IF n \in {"bin", "client", cVersion}
             THEN files'[n] = files[n]
             ELSE (files'[n] = Absent) <=> (cnow - files[n] > TwentyFourHours)]_vars

C15_LockReleasedOnce ==
  (ipc \in {"done", "threw", "exited"} /\ iAcquired > 0) =>
    (iUnlocks = 1 /\ pluginsLock = None)

\* C16: when install fails because the module cannot be loaded or has no
\* commands export, the dependencies map equals the map before the install
\* and the failure is surfaced as an invalid-plugin error.
C16_InstallRevertsPJSON ==
  (ipc = "exited") => (dependencies = iBefore /\ iErr = "NotAPlugin")

\* Occurrences of id in a list of command IDs.
Count(id, ids) == Cardinality({i \in 1..Len(ids) : ids[i] = id})

\* The providers of a command ID, and the one that takes precedence:
\* user over linked over builtin.
ProvidersOf(id) == {p \in Providers : id \in provided[p]}
Best(id) ==
  IF "user" \in ProvidersOf(id) THEN "user"
  ELSE IF "linked" \in ProvidersOf(id) THEN "linked"
  ELSE "builtin"

\* C17: after init a command ID that more than one provider has appears
\* exactly once in the merged commandIDs, and findCommand serves it from the
\* user provider before the linked one and the linked one before the builtin
\* one.
C17_MergedOnceByPrecedence ==
  initialized =>
    \A id \in AliasIDs :
      (Cardinality(ProvidersOf(id)) > 1) =>
        /\ Count(id, commandIDs) = 1
        /\ (Unalias(aliases, id) = id) =>
             FindCommandIn(id).provider = Best(id)

\* ids is in ascending order.
Sorted(ids) == \A i, j \in 1..Len(ids) : (i < j) => ~Less(ids[j], ids[i])

\* C18: init is idempotent: once initialized, further init calls leave
\* topics, every topic's commands and commandIDs as the first call left them,
\* and commandIDs is sorted and holds no empty string.
C18_InitIdempotent ==
  [][/\ initialized => (commandIDs' = commandIDs /\ topics' = topics)
     /\ initialized' => (Sorted(commandIDs') /\ Count(EmptyID, commandIDs') = 0)]_vars

C18_Witness ==
  /\ initialized /\ mInits = MaxInits /\ mpc = "idle"
  /\ Len(commandIDs) >= 2
  /\ EmptyID \in provided["user"]
  /\ \E t \in TopicNames : topics[t].commands # <<>>

\* unalias applied twice gives what it gives applied once, also where
\* findCommand applies it again at the provider's level.
Idempotent ==
  /\ \A x \in AliasIDs :
       Unalias(aliases, Unalias(aliases, x)) = Unalias(aliases, x)
  /\ (found.provider # None) => found.command = Unalias(aliases, found.id)

\* C19 (as stated): for every alias map and every id x,
\* unalias(unalias(x)) = unalias(x).
C19_UnaliasIdempotent == Idempotent

\* No canonical ID is listed as an alias of another canonical ID.
NoChain(al) ==
  \A i, j \in 1..Len(al) : (i # j) => al[i][1] \notin al[j][2]

\* C19 (amended): unalias gives the canonical ID whose alias list holds x,
\* otherwise x; for an alias map in which no canonical ID is itself an alias
\* of another one, unalias(unalias(x)) = unalias(x).
C19_UnaliasIdempotentWithoutChains ==
  /\ \A x \in AliasIDs :
       IF \E i \in 1..Len(aliases) : x \in aliases[i][2]
         THEN \E i \in 1..Len(aliases) :
                aliases[i][1] = Unalias(aliases, x) /\ x \in aliases[i][2]
         ELSE Unalias(aliases, x) = x
  /\ NoChain(aliases) => Idempotent

C19_Witness ==
  /\ NoChain(aliases) /\ Len(aliases) = 2
  /\ found.provider # None
  /\ found.command # found.id

\* Some argument is --help or -h and no -- comes before it.
HelpBeforeTerminator(av) ==
  \E i \in 1..Len(av) :
    /\ av[i] \in {"--help", "-h"}
    /\ \A j \in 1..(i - 1) : av[j] # "--"

C28_FailedUpdateReleasesLock ==
  \A p \in Procs :
    (role[p] = "update" /\ pc[p] \in {"updated", "failed"})
      => writer[UpdaterLockfile] # p

\* The same for the successful end alone (update() line 184, downgrade()).
C28_SuccessfulUpdateReleasesLock ==
  \A p \in Procs :
    (role[p] = "update" /\ pc[p] = "updated") => writer[UpdaterLockfile] # p

\* C29: the step on which an update fails, and every step before it, leaves
\* the release trees other than the one being installed, and the clientBin
\* link, as they were.
C29_FailedUpdateFrame ==
  [][\A p \in Procs :
       (pc[p] \in {"locked", "streaming", "cleared", "extracted"}
          /\ pc'[p] \in {"streaming", "cleared", "extracted", "failed"})
         => /\ trees' \ {manifestVersion[p]} = trees \ {manifestVersion[p]}
            /\ clientBin' = clientBin]_vars

\* The same frame for the failures that do not go through fail(): a failed
\* download request, a SHA mismatch, a failed rename.
C29_FrameWithoutFailCleanup ==
  [][\A p \in Procs :
       (pc[p] \in {"locked", "streaming", "cleared", "extracted"}
          /\ pc'[p] \in {"streaming", "cleared", "extracted", "failed"}
          /\ rootExists')
         => /\ trees' \ {manifestVersion[p]} = trees \ {manifestVersion[p]}
            /\ clientBin' = clientBin]_vars


\* How many of the three dispatch outcomes happened.
Outcomes ==
  (IF executed THEN 1 ELSE 0) + (IF topicHelp THEN 1 ELSE 0)
    + (IF notFound THEN 1 ELSE 0)

\* C21: for an argv without a help flag, the identifier looked up is the
\* first argument, else the default command, else "help"; when run() ends,
\* exactly one of three things has happened: the command found was run; no
\* command was found, the topic matched and topic help was rendered; neither
\* matched and NotFound was emitted.  The process exits 0 after a command
\* that returned and after topic help, and 127 after NotFound.
C21_DispatchPrecedence ==
  /\ Outcomes <= 1
  /\ (resolved /\ Len(argv) >= 2) => lookedUp = argv[2]
  /\ (resolved /\ Len(argv) < 2 /\ defaultCommand # None)
       => lookedUp = defaultCommand
  /\ (resolved /\ Len(argv) < 2 /\ defaultCommand = None) => lookedUp = "help"
  /\ (hpc \in {"flush", "exit"} /\ ~helpPath) =>
       /\ Outcomes = 1
       /\ executed <=> cmdFound
       /\ topicHelp <=> (~cmdFound /\ topicFound)
       /\ notFound <=> (~cmdFound /\ ~topicFound)
  /\ (hpc = "exit" /\ ~helpPath) =>
       /\ (executed /\ ~threw) => exitCode = ExitOK
       /\ topicHelp => exitCode = ExitOK
       /\ notFound => exitCode = ExitNotFound

C21_Witness ==
  /\ hpc = "exit" /\ ~helpPath
  /\ argv = <<"heroku">> /\ defaultCommand = None /\ lookedUp = "help"
  /\ notFound /\ exitCode = ExitNotFound

C21_WitnessTopic == hpc = "exit" /\ topicHelp /\ exitCode = ExitOK
C21_WitnessCommand == hpc = "exit" /\ executed /\ ~threw /\ exitCode = ExitOK


\* C22: a process that needs the update lock while another process holds it
\* waits for it; no process ends with an error because the lock is held.
C22_NoAbortOnHeldLock ==
  \A p \in GoProcs : gErr[p] # "Update in progress"

\* The Go updater's lock is still exclusive: one process at a time is
\* between golock.Lock and the deferred unlock.
GoLockExclusive ==
  \A p, q \in GoProcs :
    (gpc[p] \in {"download", "unlock"} /\ gpc[q] \in {"download", "unlock"})
      => p = q

\* GetUpdateManifest: no fetch makes more than two attempts, and a process
\* retries at most once in its lifetime.
GoManifestRetryBounded ==
  \A p \in GoProcs : gAttempts[p] <= 2 /\ gRetries[p] <= 1


\* The listing was taken after the last operation ended.
FreshListing == ipc = "idle" /\ listedOps = iOps /\ iOps > 0

C23_WitnessInstall ==
  FreshListing /\ iErr = None /\ iOp = "install" /\ iBefore[iName] = None

C23_WitnessLink == FreshListing /\ iOp = "link" /\ iName \in listing


\* C25: a manifest fetch that fails with a transport error has been
\* attempted twice when the error is surfaced, and no fetch makes more than
\* two attempts.
C25_ManifestRetriedOnce ==
  (fOp = "manifest" /\ fpc \in {"returned", "threw"}) =>
    /\ fRequests <= 2
    /\ (fpc = "threw" /\ fErr = "transport") => fRequests = 2

\* fetchManifest makes one request per call, whatever its outcome.
FetchManifestSingleAttempt ==
  (fOp = "manifest" /\ fpc \in {"returned", "threw"}) => fRequests = 1

\* A fetchVersion(false) call that has ended without an HTTP failure.
VersionCallEnded ==
  /\ fOp = "version" /\ ~fDownload
  /\ fpc \in {"returned", "threw"}
  /\ fErr # "http"

\* C26: fetchVersion(false) returns the cached version without a request
\* when the cache file is readable; with a missing file, or a read error
\* other than a permission error, it fetches and returns the remote version;
\* a failed cache write does not fail the call; a version written to the
\* cache is read back as the same object.
C26_FetchVersionCache ==
  /\ (VersionCallEnded /\ fileAtCall.kind = "json") =>
       /\ fpc = "returned" /\ fRequests = 0
       /\ fResult = ParseJSON(fileAtCall.text)
  /\ (VersionCallEnded /\ fileAtCall.kind \in {"missing", "corrupt"}) =>
       /\ fpc = "returned" /\ fRequests = 1
       /\ fResult = remoteVersion
  /\ fWriteFailed => fpc # "threw"
  /\ \A v \in VersionObjs : ReadJSON(FileOf(v)).value = v
  /\ (VersionCallEnded /\ \E v \in VersionObjs : fileAtCall = FileOf(v)) =>
       fileAtCall = FileOf(fResult)

\* The same with the unparsable cache file left out: what fetchVersion does
\* for a readable, a missing and a denied cache file.
FetchVersionCacheParsable ==
  /\ (VersionCallEnded /\ fileAtCall.kind = "json") =>
       /\ fpc = "returned" /\ fRequests = 0
       /\ fResult = ParseJSON(fileAtCall.text)
  /\ (VersionCallEnded /\ fileAtCall.kind = "missing") =>
       /\ fpc = "returned" /\ fRequests = 1
       /\ fResult = remoteVersion
  /\ (VersionCallEnded /\ fileAtCall.kind = "denied") =>
       /\ fpc = "threw" /\ fErr = "EACCES" /\ fRequests = 0
  /\ fWriteFailed => fpc # "threw"
  /\ \A v \in VersionObjs : ReadJSON(FileOf(v)).value = v
  /\ (VersionCallEnded /\ \E v \in VersionObjs : fileAtCall = FileOf(v)) =>
       fileAtCall = FileOf(fResult)


\* The entries of a sequence.
Range(ids) == {ids[i] : i \in 1..Len(ids)}

\* A call of init() has ended.
InitEnded(c) == npc[c] \in {"returned", "rejected"}

\* C24: when one provider fails to load, init still completes, and the
\* command IDs and the topics of every other provider are in the merged
\* catalog.
C24_InitSurvivesBrokenProvider ==
  \A c \in Callers :
    (InitEnded(c) /\ nBroken # None) =>
      /\ npc[c] = "returned"
      /\ \A m \in Providers \ {nBroken} :
           /\ (nProvided[m] \ {EmptyID}) \subseteq Range(nCommandIDs)
           /\ \A t \in nDeclared[m] : nTopics[t].exists

\* The same when no provider fails: init returns and every provider's command
\* IDs and topics are in the catalog.
InitMergesAllProviders ==
  \A c \in Callers :
    (InitEnded(c) /\ nBroken = None) =>
      /\ npc[c] = "returned"
      /\ \A m \in Providers :
           /\ (nProvided[m] \ {EmptyID}) \subseteq Range(nCommandIDs)
           /\ \A t \in nDeclared[m] : nTopics[t].exists

\* The last provider, in the order of the submanagers, that declared topic t.
Declarers(t) == {i \in 1..Len(Submanagers) : t \in nDeclared[Submanagers[i]]}
LastDeclarer(t) ==
  Submanagers[CHOOSE i \in Declarers(t) : \A j \in Declarers(t) : j <= i]

\* The metadata part of C27: a declared topic carries the metadata of the
\* last provider that declared it.
TopicMetaOfLaterProvider ==
  nInitialized =>
    \A t \in TopicNames :
      (Declarers(t) # {}) => nTopics[t].meta = LastDeclarer(t)

\* C27: after init, every command ID with a non-empty topic prefix has its
\* topic, the topic's commands hold the ID exactly once, and a topic declared
\* by several providers carries the metadata of the later one.
C27_TopicsHoldCommandsOnce ==
  /\ nInitialized =>
       \A i \in 1..Len(nCommandIDs) :
         (TopicFromID(nCommandIDs[i]) # <<>>) =>
           /\ nTopics[TopicFromID(nCommandIDs[i])].exists
           /\ Count(nCommandIDs[i],
                    nTopics[TopicFromID(nCommandIDs[i])].commands) = 1
  /\ TopicMetaOfLaterProvider

\* No command ID is found by two providers.
DisjointProviders ==
  \A m1, m2 \in Providers :
    (m1 # m2) => (nProvided[m1] \cap nProvided[m2]) \subseteq {EmptyID}

\* C27 where no two providers share a command ID and one init() has merged.
TopicsHoldCommandsOnceDisjoint ==
  (nInitialized /\ DisjointProviders
     /\ \E c \in Callers : nCalls[c] = 0) =>
    \A i \in 1..Len(nCommandIDs) :
      (TopicFromID(nCommandIDs[i]) # <<>>) =>
        /\ nTopics[TopicFromID(nCommandIDs[i])].exists
        /\ Count(nCommandIDs[i],
                 nTopics[TopicFromID(nCommandIDs[i])].commands) = 1

\* What a single init() leaves.
SingleInit == InitMerge(<<>>, NoTopics, nProvided, nDeclared)

\* C30: when the init() calls have ended, overlapping or not, commandIDs and
\* the topics are what a single init() leaves.
C30_OverlappingInitAsSingle ==
  (nInitialized /\ \A c \in Callers : npc[c] # "awaiting") =>
    /\ nCommandIDs = SingleInit.commandIDs
    /\ nTopics = SingleInit.topics

\* The same when only one caller has called init().
OneCallerInitAsSingle ==
  (nInitialized /\ \E c \in Callers : nCalls[c] = 0) =>
    /\ nCommandIDs = SingleInit.commandIDs
    /\ nTopics = SingleInit.topics


\* A process is between the read and the write-back of package.json.
InPJSONWrite(p) == jpc[p] \in {"addwrite", "revertwrite"}

\* C31: every read-modify-write of package.json made by install, the added
\* dependency and its revert, runs while the process holds the plugins
\* writer lock, so two installs are never both between their read and their
\* write.
C31_PJSONWrittenUnderLock ==
  /\ \A p \in Installers :
       (jpc[p] \in {"addread", "addwrite", "revertread", "revertwrite"})
         => jLock = p
  /\ \A p, q \in Installers : (InPJSONWrite(p) /\ InPJSONWrite(q)) => p = q

\* The added dependency alone is written under the lock.
AddWrittenUnderLock ==
  \A p \in Installers : (jpc[p] \in {"addread", "addwrite"}) => jLock = p

\* What the interleaving costs: the dependency of an install that returned
\* is taken out of package.json by the revert of an install of another name.
InstalledStaysInPJSON ==
  \A p \in Installers :
    (jpc[p] = "done"
       /\ \A q \in Installers \ {p} : jName[q] # jName[p])
      => jDeps[jName[p]] # None

====
